---- MODULE Spec2Model ----
(***************************************************************************)
(* ETI spreadsheet automation scripts (apps_script/v_1.3): the staging ->  *)
(* promotion workflow, the machine-id / human-id backfillers, the orphan   *)
(* reconcilers and the staging intake, as state machines over the sheets   *)
(* they read and write.                                                    *)
(*                                                                         *)
(* A sheet is the sequence of its data rows (the header row is implicit);  *)
(* a row is a record of cells keyed by header name; a cell is a typed      *)
(* JavaScript value as getValues() returns it.                             *)
(***************************************************************************)
EXTENDS Naturals, Sequences, FiniteSets, TLC

(* ----------------------------- bounds ---------------------------------- *)
\* rows of the staging sheet in the initial states of the promotion runs
MaxStg == 2
\* rows of Transaction_Resolution the intake specification lets users add
MaxSrc == 2
\* rows of a master lookup sheet in the initial states of the reconcilers
MaxLk == 2
\* rows of Transaction_Raw in the initial states of the reconcilers
MaxTxn == 1
\* uuids drawn before the last uuid-drawing run of a behaviour starts
MaxUuid == 2
MaxIds == 3
MaxProcs == 2
MaxMap == 3
MaxTstg == 2
MaxRuns == 2
\* rows of Transaction_Raw in the initial states of the strict cleanup
MaxAuditRows == 2

VARIABLES
  variant,    \* what the sheets hold: "items", "brands" or "products";
              \* "txn" for Transaction_Raw; for the human ids the
              \* identifier column that Lookup_Items has
  stg,        \* Staging_Lookup_<Entity> data rows
  lk,         \* Lookup_<Entity> data rows
  src,        \* Transaction_Resolution data rows
  txn,        \* Transaction_Raw data rows
  ctrl,       \* Counter_Control: the Total_Counter cell of the ITEM row
  uuidNext,   \* Utilities.getUuid(): number of tokens handed out so far
  run,        \* the promotion run in progress (its locals and its position)
  hist,       \* the last two completed operations, most recent last; the
              \* last one with the number of write calls it made
  issued,     \* every identifier value that was ever in an identifier column
  firstId     \* per master row, the first machine id the row ever held

\* Item_Buy_Evaluate, Item_Evaluation_Log and the triggered executions
VARIABLES
  evalRow,    \* row 2 of Item_Buy_Evaluate
  logSheet,   \* Item_Evaluation_Log data rows
  procs,      \* the executions of onChangeInstallable, by number
  lock        \* LockService.getScriptLock(): its holder, 0 when free

VARIABLES
  absent,     \* the sheets and columns that are missing from the spreadsheet
  mapping,    \* Mapping_Item_Brand (Mapping_Item_Brand_Product) data rows
  tstg,       \* Transaction_Staging data rows
  runs,       \* promotion runs executing side by side, by number
  job,        \* the run in progress of a script that is followed call by
              \* call (strict cleanup, generateItemID_H, backfill, cleanup)
  audit       \* Script_Logs: the rows appended by ETI_log_

tableVars == <<variant, stg, lk, src, txn, ctrl, uuidNext, run, hist, issued, firstId>>
evalVars == <<evalRow, logSheet, procs, lock>>
auxVars == <<absent, mapping, tstg, runs, job, audit>>
vars == <<tableVars, evalVars, auxVars>>

\* no master, staging or transaction sheet is involved
TablesUnused ==
  /\ variant = "items"
  /\ stg = <<>> /\ lk = <<>> /\ src = <<>> /\ txn = <<>>
  /\ ctrl = [ty |-> "string", s |-> <<>>]
  /\ uuidNext = 1
  /\ run = [pc |-> "idle", stgData |-> <<>>, lkLen |-> 0, lookupAppendRows |-> <<>>,
            stagingUpdates |-> <<>>, u |-> 0, cell |-> "none", skipped |-> 0]
  /\ hist = <<>> /\ issued = {} /\ firstId = <<>>

\* no evaluator sheet, no execution of the trigger
EvalUnused == evalRow = <<>> /\ logSheet = <<>> /\ procs = <<>> /\ lock = 0

\* no script is between two of its calls
JobIdle == [pc |-> "idle"]

\* every sheet and column is in place, no mapping sheet is involved, no two
\* promotion runs overlap and no script is followed call by call
AuxUnused ==
  /\ absent = {} /\ mapping = <<>> /\ tstg = <<>> /\ runs = <<>>
  /\ job = JobIdle /\ audit = <<>>

(* ------------------------- JavaScript values --------------------------- *)
\* A cell value: its JavaScript type and its text as String(v) renders it,
\* as a sequence of tokens ('' is the empty sequence).
Str(tokens) == [ty |-> "string", s |-> tokens]
EMPTY == Str(<<>>)
Bool(b) == [ty |-> "boolean", s |-> <<IF b THEN "true" ELSE "false">>]

DigitTok == <<"0", "1", "2", "3", "4", "5", "6", "7", "8", "9">>

RECURSIVE ToDigits(_)
\* String(n) for a non-negative integer n
ToDigits(n) ==
  IF n < 10 THEN <<DigitTok[n + 1]>>
  ELSE ToDigits(n \div 10) \o <<DigitTok[(n % 10) + 1]>>

Num(n) == [ty |-> "number", s |-> ToDigits(n)]

\* ToBoolean(v): '' , 0 and false are falsy
Truthy(c) ==
  CASE c.ty = "string"  -> c.s # <<>>
    [] c.ty = "number"  -> c.s # <<"0">>
    [] c.ty = "boolean" -> c.s = <<"true">>

\* a || b
OrElse(a, b) == IF Truthy(a) THEN a ELSE b

\* v === true
IsTrue(c) == c = Bool(TRUE)

\* String(v)
StringOf(c) == Str(c.s)

\* Utilities.getUuid(): the n-th token; tokens never repeat
Uuid(n) == Str(<<"uuid-">> \o ToDigits(n))

\* a run draws identifiers only while the supply lasts, so that behaviours
\* are finite; next is the number of the first identifier not drawn
WithinCap(next) == next <= MaxUuid + 1

(* ------------------------------ sheets --------------------------------- *)
Variants == {"items", "brands", "products"}

StgFields == {"srcTxn", "stgId", "mappedId", "entered", "canon", "approved",
              "isApproved", "isActive", "isArchived", "isPromoted", "review",
              "notes"}
LkFields == {"idM", "idHuman", "name", "canon", "isActive", "isArchived",
             "isStgPromoted", "notes", "Item_ID_M", "Item_ID_H"}

BlankRow(fields) == [f \in fields |-> EMPTY]
IsBlank(r) == \A f \in DOMAIN r : r[f] = EMPTY

RECURSIVE Trim(_)
\* getLastRow() / getDataRange(): a sheet ends at its last non-blank row
Trim(rows) ==
  IF rows = <<>> THEN <<>>
  ELSE IF IsBlank(rows[Len(rows)]) THEN Trim(SubSeq(rows, 1, Len(rows) - 1))
  ELSE rows

\* sheet.getRange(lastRow + 1, 1, n, w).setValues(rows)
AppendRows(sheet, rows) == Trim(sheet \o rows)

\* sheet.getRange(row, col).setValue(v); row counts data rows from 1
SetCell(sheet, row, fields, f, v) ==
  LET padded == sheet \o [k \in 1..(row - Len(sheet)) |-> BlankRow(fields)]
  IN  Trim([padded EXCEPT ![row][f] = v])

\* the completed operation e enters the two-operation history
\* (the operation before it is remembered by name only)
Push(h, e) ==
  IF h = <<>> THEN <<e>> ELSE <<[op |-> h[Len(h)].op, writes |-> 0], e>>

(* ------------------------- sheets and headers -------------------------- *)
\* ss.getSheetByName(sheet) returns null
NoSheet(sheet) == <<sheet, "*">> \in absent

\* header.indexOf(column) === -1
NoColumn(sheet, column) == <<sheet, column>> \in absent

\* the checks at the head of a script: one of its sheets is missing, or one
\* of the columns of its index maps
PreconditionFails(sheets, columns) ==
  \/ \E s \in sheets : NoSheet(s)
  \/ \E c \in columns : NoColumn(c[1], c[2])

\* newRow[col(name)] = v: with col(name) === -1 the value becomes the
\* property "-1" of the array, which setValues does not write
Placed(sheet, column, v) == IF NoColumn(sheet, column) THEN EMPTY ELSE v

\* throw new Error(...): the run ends here
Throw ==
  /\ hist' = Push(hist, [op |-> "throw", writes |-> 0])
  /\ UNCHANGED <<auxVars, evalVars, variant, stg, lk, src, txn, ctrl, uuidNext,
                 run, issued, firstId>>

(* ------------------------ promotion engine ----------------------------- *)
\* `Promoted to Lookup_X -> X_ID_Machine=`
PromoNoteText(v) ==
  CASE v = "items"    -> "Promoted to Lookup_Items -> Item_ID_Machine="
    [] v = "brands"   -> "Promoted to Lookup_Brands -> Brand_ID_Machine="
    [] v = "products" -> "Promoted to Lookup_Products -> Product_ID_Machine="

\* the precedence the other way round: r[entered] || r[approved]
FinalName_EnteredFirst(r) == OrElse(r.entered, r.approved)

\* r[approved] || r[entered]
FinalName(r) == OrElse(r.approved, r.entered)

\* the gates without the hard stop on Is_Lookup_Promoted
PromoGate_NoHardStop(r) ==
  /\ IsTrue(r.isApproved)
  /\ Truthy(OrElse(r.approved, r.entered))

\* the gates without the skip of a row that has no name
PromoGate_Unnamed(r) ==
  /\ IsTrue(r.isApproved)
  /\ ~IsTrue(r.isPromoted)

\* the three skip gates of the promotion loop
PromoGate(r) ==
  /\ IsTrue(r.isApproved)
  /\ ~IsTrue(r.isPromoted)
  /\ Truthy(FinalName(r))

\* newLookupRow; Lookup_Items has no Is_Archived column
NewLookupRow(v, r, id) ==
  [BlankRow(LkFields) EXCEPT
     !.idM = id,
     !.idHuman = EMPTY,
     !.name = FinalName(r),
     !.canon = OrElse(r.canon, EMPTY),
     !.isActive = Bool(TRUE),
     !.isArchived = IF v = "items" THEN EMPTY ELSE Bool(FALSE),
     !.isStgPromoted = Bool(TRUE),
     !.notes = Str(<<"Promoted from staging">>)]

\* newNote = (existingNote ? existingNote + ' | ' : '') + `Promoted to ...=${id}`
NewNote(v, r, id) ==
  LET existingNote == OrElse(r.notes, EMPTY)
  IN  Str((IF Truthy(existingNote) THEN existingNote.s \o <<" | ">> ELSE <<>>)
          \o <<PromoNoteText(v)>> \o id.s)

RECURSIVE PromoLoop(_, _, _, _)
\* for (let i = 1; i < stgData.length; i++): acc holds lookupAppendRows,
\* stagingUpdates, the number of uuids drawn and the skipped counter
PromoLoop(v, stgData, i, acc) ==
  IF i > Len(stgData) THEN acc
  ELSE LET r == stgData[i]
           id == Uuid(acc.next)
       IN  IF ~PromoGate(r)
           THEN PromoLoop(v, stgData, i + 1, [acc EXCEPT !.skipped = @ + 1])
           ELSE PromoLoop(v, stgData, i + 1,
                  [lookupAppendRows |->
                     Append(acc.lookupAppendRows, NewLookupRow(v, r, id)),
                   stagingUpdates |->
                     Append(acc.stagingUpdates,
                            [row |-> i, mappedId |-> id, note |-> NewNote(v, r, id)]),
                   next |-> acc.next + 1,
                   skipped |-> acc.skipped])

RunIdle ==
  [pc |-> "idle", stgData |-> <<>>, lkLen |-> 0, lookupAppendRows |-> <<>>,
   stagingUpdates |-> <<>>, u |-> 0, cell |-> "none", skipped |-> 0]

\* the run up to the end of the promotion loop: both sheets read, the gates
\* applied to the snapshot, nothing written yet
PromoStart ==
  /\ run.pc = "idle"
  /\ LET acc == PromoLoop(variant, stg, 1,
                  [lookupAppendRows |-> <<>>, stagingUpdates |-> <<>>,
                   next |-> uuidNext, skipped |-> 0])
     IN  /\ WithinCap(acc.next)
         /\ run' = [pc |-> "scanned", stgData |-> stg, lkLen |-> Len(lk),
                    lookupAppendRows |-> acc.lookupAppendRows,
                    stagingUpdates |-> acc.stagingUpdates, u |-> 0,
                    cell |-> "none", skipped |-> acc.skipped]
         /\ uuidNext' = acc.next
  /\ UNCHANGED <<auxVars, evalVars, variant, stg, lk, src, txn, ctrl, hist, issued, firstId>>

\* the run going on to the write-back with the master rows still unwritten
PromoAppend_Deferred ==
  /\ run.pc = "scanned"
  /\ run' = IF Len(run.stagingUpdates) > 0
            THEN [run EXCEPT !.pc = "writeback", !.u = 1, !.cell = "mappedId"]
            ELSE [run EXCEPT !.pc = "end"]
  /\ UNCHANGED <<auxVars, evalVars, variant, stg, lk, src, txn, ctrl, uuidNext, hist, issued, firstId>>

\* WRITE LOOKUP: one setValues of all new master rows below the last row
PromoAppend ==
  /\ run.pc = "scanned"
  /\ lk' = IF Len(run.lookupAppendRows) > 0
           THEN AppendRows(lk, run.lookupAppendRows) ELSE lk
  /\ run' = IF Len(run.stagingUpdates) > 0
            THEN [run EXCEPT !.pc = "writeback", !.u = 1, !.cell = "mappedId"]
            ELSE [run EXCEPT !.pc = "end"]
  /\ UNCHANGED <<auxVars, evalVars, variant, stg, src, txn, ctrl, uuidNext, hist, issued, firstId>>

\* the write-back with the flag cell written before the mapped-id cell
PromoWriteMappedId_FlagFirst ==
  /\ run.pc = "writeback" /\ run.cell = "mappedId"
  /\ LET upd == run.stagingUpdates[run.u]
     IN  stg' = SetCell(stg, upd.row, StgFields, "isPromoted", Bool(TRUE))
  /\ run' = [run EXCEPT !.cell = "isPromoted"]
  /\ UNCHANGED <<auxVars, evalVars, variant, lk, src, txn, ctrl, uuidNext, hist, issued, firstId>>

\* WRITE BACK TO STAGING: three setValue calls per update, in this order
PromoWriteMappedId ==
  /\ run.pc = "writeback" /\ run.cell = "mappedId"
  /\ LET upd == run.stagingUpdates[run.u]
     IN  stg' = SetCell(stg, upd.row, StgFields, "mappedId", upd.mappedId)
  /\ run' = [run EXCEPT !.cell = "isPromoted"]
  /\ UNCHANGED <<auxVars, evalVars, variant, lk, src, txn, ctrl, uuidNext, hist, issued, firstId>>

PromoWriteIsPromoted ==
  /\ run.pc = "writeback" /\ run.cell = "isPromoted"
  /\ LET upd == run.stagingUpdates[run.u]
     IN  stg' = SetCell(stg, upd.row, StgFields, "isPromoted", Bool(TRUE))
  /\ run' = [run EXCEPT !.cell = "notes"]
  /\ UNCHANGED <<auxVars, evalVars, variant, lk, src, txn, ctrl, uuidNext, hist, issued, firstId>>

PromoWriteNotes ==
  /\ run.pc = "writeback" /\ run.cell = "notes"
  /\ LET upd == run.stagingUpdates[run.u]
     IN  stg' = SetCell(stg, upd.row, StgFields, "notes", upd.note)
  /\ run' = IF run.u < Len(run.stagingUpdates)
            THEN [run EXCEPT !.u = run.u + 1, !.cell = "mappedId"]
            ELSE [run EXCEPT !.pc = "end", !.cell = "none"]
  /\ UNCHANGED <<auxVars, evalVars, variant, lk, src, txn, ctrl, uuidNext, hist, issued, firstId>>

\* the function returns: its locals are gone
PromoFinish ==
  /\ run.pc = "end"
  /\ run' = RunIdle
  /\ UNCHANGED <<auxVars, evalVars, variant, stg, lk, src, txn, ctrl, uuidNext, hist, issued, firstId>>

\* a termination that takes the run's master rows back
PromoAbandon_Rollback ==
  /\ run.pc \in {"scanned", "writeback"}
  /\ run' = RunIdle
  /\ lk' = SubSeq(lk, 1, run.lkLen)
  /\ UNCHANGED <<auxVars, evalVars, variant, stg, src, txn, ctrl, uuidNext, hist, issued, firstId>>

\* the execution is terminated (time limit, cancelled) between two calls
PromoAbandon ==
  /\ run.pc \in {"scanned", "writeback"}
  /\ run' = RunIdle
  /\ UNCHANGED <<auxVars, evalVars, variant, stg, lk, src, txn, ctrl, uuidNext, hist, issued, firstId>>

\* an approver ticks Is_Approved on a staging row (outside the scripts)
ExtApprove ==
  /\ run.pc = "idle"
  /\ \E i \in 1..Len(stg) :
       /\ ~IsTrue(stg[i].isApproved)
       /\ stg' = [stg EXCEPT ![i].isApproved = Bool(TRUE)]
  /\ UNCHANGED <<auxVars, evalVars, variant, lk, src, txn, ctrl, uuidNext, run, hist, issued, firstId>>

\* a staging row as the intake leaves it and an approver may have edited it
StgRow(e, a, ap, n) ==
  [BlankRow(StgFields) EXCEPT
     !.srcTxn = Str(<<"txn">>), !.stgId = Str(<<"stg">>),
     !.entered = e, !.approved = a, !.canon = Str(<<"canon">>),
     !.isApproved = Bool(ap), !.isActive = Bool(TRUE),
     !.isArchived = Bool(FALSE), !.isPromoted = Bool(FALSE),
     !.review = Str(<<"Pending">>), !.notes = n]

\* fresh from intake; approved as entered; approved under a corrected name
\* with an approver's note; approved with only the corrected name; approved
\* with no name at all; corrected but not yet approved
PromoStgRows ==
  { StgRow(Str(<<"coke">>), EMPTY, FALSE, EMPTY),
    StgRow(Str(<<"coke">>), EMPTY, TRUE, EMPTY),
    StgRow(Str(<<"coke">>), Str(<<"Coca-Cola">>), TRUE, Str(<<"checked">>)),
    StgRow(EMPTY, Str(<<"Coca-Cola">>), TRUE, EMPTY),
    StgRow(EMPTY, EMPTY, TRUE, Str(<<"checked">>)),
    StgRow(Str(<<"coke">>), Str(<<"Coca-Cola">>), FALSE, Str(<<"checked">>)) }

SeqsUpTo(S, n) == UNION {[1..k -> S] : k \in 0..n}

\* a master row entered by hand before any run
ManualLkRow(name, id) ==
  [BlankRow(LkFields) EXCEPT !.name = name, !.idM = id, !.isActive = Bool(TRUE)]

InitPromo ==
  /\ variant \in Variants
  /\ stg \in SeqsUpTo(PromoStgRows, MaxStg) \ {<<>>}
  /\ lk = <<ManualLkRow(Str(<<"Pepsi">>), Uuid(0))>>
  /\ src = <<>> /\ txn = <<>> /\ ctrl = EMPTY
  /\ uuidNext = 1
  /\ run = RunIdle
  /\ hist = <<>>
  /\ issued = {}
  /\ firstId = <<>>
  /\ EvalUnused /\ AuxUnused

NextPromo ==
  \/ PromoStart
  \/ PromoAppend
  \/ PromoWriteMappedId
  \/ PromoWriteIsPromoted
  \/ PromoWriteNotes
  \/ PromoFinish
  \/ PromoAbandon
  \/ ExtApprove

SpecPromo == InitPromo /\ [][NextPromo]_vars

(* ------------------- promotion: exactly once (C1, C2) ------------------ *)
\* approved, not yet promoted, and a name to publish
Eligible(r) ==
  /\ r.isApproved = Bool(TRUE)
  /\ r.isPromoted # Bool(TRUE)
  /\ (r.approved # EMPTY \/ r.entered # EMPTY)

\* the master rows this run appended that carry staging row i's mapped id
AppendedFor(i) ==
  {j \in (run.lkLen + 1)..Len(lk) : lk[j].idM = stg[i].mappedId}

\* C1: when a complete run has made its last write, every staging row that
\* was approved, unpromoted and named when the run read the sheet is flagged
\* promoted and has exactly one master row appended by this run; the run
\* appended nothing else; and every row that an earlier run had already
\* flagged has no master row appended and keeps its mapped id, flag and notes.
C1_PromotionExactlyOnce ==
  run.pc = "end" =>
    /\ \A i \in 1..Len(run.stgData) :
         LET r0 == run.stgData[i]
         IN  /\ Eligible(r0) =>
                  /\ stg[i].isPromoted = Bool(TRUE)
                  /\ Cardinality(AppendedFor(i)) = 1
             /\ r0.isPromoted = Bool(TRUE) =>
                  /\ AppendedFor(i) = {}
                  /\ stg[i].mappedId = r0.mappedId
                  /\ stg[i].isPromoted = r0.isPromoted
                  /\ stg[i].notes = r0.notes
    /\ Len(lk) - run.lkLen =
         Cardinality({i \in 1..Len(run.stgData) : Eligible(run.stgData[i])})

\* a complete later run: one row was promoted before it started, another
\* one is promoted by it
C1_Witness ==
  /\ run.pc = "end"
  /\ \E i, k \in 1..Len(run.stgData) :
       /\ run.stgData[i].isPromoted = Bool(TRUE)
       /\ Eligible(run.stgData[k])

\* C2: in every state, also between two cell writes of the write-back and
\* after a run was abandoned, a staging row flagged Is_Lookup_Promoted has a
\* non-empty mapped id that is the machine id of exactly one master row.
C2_PromotedRowIsMapped ==
  \A i \in 1..Len(stg) :
    stg[i].isPromoted = Bool(TRUE) =>
      /\ stg[i].mappedId # EMPTY
      /\ Cardinality({j \in 1..Len(lk) : lk[j].idM = stg[i].mappedId}) = 1

\* the flag of a row has just been written, its notes cell not yet, in a run
\* that follows an abandoned one (a master row of the earlier run is orphaned)
C2_Witness ==
  /\ run.pc = "writeback" /\ run.cell = "notes"
  /\ stg[run.stagingUpdates[run.u].row].isPromoted = Bool(TRUE)
  /\ Len(lk) - run.lkLen = Len(run.lookupAppendRows)
  /\ \E j \in 1..run.lkLen :
       /\ lk[j].isStgPromoted = Bool(TRUE)
       /\ \A i \in 1..Len(run.stgData) : run.stgData[i].mappedId # lk[j].idM

(* ------------- promotion: order of the writes (C18, C19) --------------- *)
\* C18: within a run the bulk append comes before the first write-back:
\* until the append the staging sheet is as the run read it, from the
\* append on every master row of the run is in the master sheet, and a
\* staging row that the run has flagged has its master row there.
C18_AppendBeforeWriteBack ==
  /\ run.pc = "scanned" => (stg = run.stgData /\ Len(lk) = run.lkLen)
  /\ run.pc \in {"writeback", "end"} =>
       Len(lk) = run.lkLen + Len(run.lookupAppendRows)
  /\ run.pc # "idle" =>
       \A k \in 1..Len(run.stagingUpdates) :
         stg[run.stagingUpdates[k].row].isPromoted = Bool(TRUE)
           => \E j \in 1..Len(lk) : lk[j].idM = run.stagingUpdates[k].mappedId

\* a run with two rows to promote has flagged the first and not yet the second
C18_Witness ==
  /\ run.pc = "writeback" /\ run.u = 2 /\ run.cell = "mappedId"
  /\ Len(run.stagingUpdates) = 2
  /\ stg[run.stagingUpdates[1].row].isPromoted = Bool(TRUE)
  /\ stg[run.stagingUpdates[2].row].isPromoted # Bool(TRUE)

\* C19: a run that is terminated during the write-back leaves the master
\* sheet and the staging sheet as they are (nothing is rolled back), master
\* rows are never removed or changed, and a run that starts promotes every
\* staging row that is approved, named and not flagged, under an id that no
\* master row carries, whatever master rows an earlier run left for it.
C19_TerminatedRunPromotedAgain ==
  [][/\ (run.pc = "writeback" /\ run'.pc = "idle") => (lk' = lk /\ stg' = stg)
     /\ \A j \in 1..Len(lk) : j <= Len(lk') /\ lk'[j] = lk[j]
     /\ (run.pc = "idle" /\ run'.pc = "scanned") =>
          \A i \in 1..Len(stg) :
            Eligible(stg[i]) =>
              \E k \in 1..Len(run'.stagingUpdates) :
                /\ run'.stagingUpdates[k].row = i
                /\ \A j \in 1..Len(lk) : lk[j].idM # run'.stagingUpdates[k].mappedId]_vars

\* a run has completed after an earlier one was terminated between the
\* append and the flag of a row: two master rows published from staging
\* carry the row's name under different ids, and the row names the later one
C19_Witness ==
  /\ run.pc = "end"
  /\ \E i \in 1..Len(stg) : \E j1 \in 1..run.lkLen : \E j2 \in (run.lkLen + 1)..Len(lk) :
       /\ lk[j1].isStgPromoted = Bool(TRUE) /\ lk[j2].isStgPromoted = Bool(TRUE)
       /\ lk[j1].name = lk[j2].name
       /\ lk[j1].idM # lk[j2].idM
       /\ stg[i].isPromoted = Bool(TRUE)
       /\ stg[i].mappedId = lk[j2].idM
       /\ lk[j2].name = IF stg[i].approved # EMPTY THEN stg[i].approved ELSE stg[i].entered

(* ------------------- promotion: published name (C11) ------------------ *)
\* the master row that the run appended for its k-th staging update
AppendedRow(k) == lk[run.lkLen + k]

\* C11: once a run has appended its master rows, the master row of every
\* staging row it promotes carries the row's approved name when that cell
\* is not empty, and its entered name otherwise (items, brands, products).
C11_PublishedName ==
  run.pc \in {"writeback", "end"} =>
    \A k \in 1..Len(run.stagingUpdates) :
      LET r0 == run.stgData[run.stagingUpdates[k].row]
      IN  /\ AppendedRow(k).idM = run.stagingUpdates[k].mappedId
          /\ AppendedRow(k).name =
               IF r0.approved # EMPTY THEN r0.approved ELSE r0.entered

\* one run promoted a row with both names and a row with an entered name only
C11_Witness ==
  /\ run.pc = "end"
  /\ \E k, m \in 1..Len(run.stagingUpdates) :
       LET rk == run.stgData[run.stagingUpdates[k].row]
           rm == run.stgData[run.stagingUpdates[m].row]
       IN  /\ rk.approved # EMPTY /\ rk.entered # EMPTY
           /\ rk.approved # rk.entered
           /\ AppendedRow(k).name = rk.approved
           /\ rm.approved = EMPTY
           /\ AppendedRow(m).name = rm.entered

(* --------------------------- staging intake ---------------------------- *)
SrcFields == {"txnId", "masterId", "entered", "canon"}

\* stagingCanonSet after the first loop: String(v) of every truthy canonical
StagingCanonSet(stgData) ==
  {StringOf(stgData[i].canon) :
     i \in {k \in 1..Len(stgData) : Truthy(stgData[k].canon)}}

\* the columns of Staging_Lookup_Items from left to right: the eleven of the
\* fixed column order, then Is_Lookup_Promoted
StgOrder ==
  <<"srcTxn", "stgId", "mappedId", "entered", "canon", "approved",
    "isApproved", "isActive", "isArchived", "review", "notes", "isPromoted">>

\* the header of the staging sheet as it is: the columns to the right of a
\* deleted column have moved one place to the left
StgHeader == SelectSeq(StgOrder, LAMBDA f : ~NoColumn("stg", f))

\* the eleven cells of rowsToAppend.push([...]) of the items intake
ItemsCells(r, id) ==
  <<r.txnId, id, EMPTY, r.entered, r.canon, EMPTY, Bool(FALSE), Bool(TRUE),
    Bool(FALSE), Str(<<"Pending">>), EMPTY>>

\* getRange(lastRow + 1, 1, n, cells.length).setValues: the k-th cell goes
\* to the k-th column of the sheet, whatever its header says
PlacedByPosition(cells) ==
  [f \in StgFields |->
     LET at == {k \in 1..Len(cells) : k <= Len(StgHeader) /\ StgHeader[k] = f}
     IN  IF at = {} THEN EMPTY ELSE cells[CHOOSE k \in at : TRUE]]

\* newRow of the brands intake (cells placed by header name) and the
\* eleven-cell row of the items intake (placed by position; it has no
\* Is_Lookup_Promoted cell)
NewStagingRow(v, r, id) ==
  IF v = "items" THEN PlacedByPosition(ItemsCells(r, id))
  ELSE [BlankRow(StgFields) EXCEPT
          !.srcTxn = Placed("stg", "srcTxn", r.txnId),
          !.stgId = Placed("stg", "stgId", id),
          !.mappedId = EMPTY,
          !.entered = Placed("stg", "entered", r.entered),
          !.canon = Placed("stg", "canon", r.canon),
          !.approved = EMPTY,
          !.isApproved = Placed("stg", "isApproved", Bool(FALSE)),
          !.isActive = Placed("stg", "isActive", Bool(TRUE)),
          !.isArchived = Placed("stg", "isArchived", Bool(FALSE)),
          !.isPromoted = Placed("stg", "isPromoted", Bool(FALSE)),
          !.review = Placed("stg", "review", Str(<<"Pending">>)),
          !.notes = EMPTY]

RECURSIVE IntakeLoop_BottomUp(_, _, _, _)
\* the same loop scanning the source rows from the last to the first
IntakeLoop_BottomUp(v, tsData, i, acc) ==
  IF i > Len(tsData) THEN acc
  ELSE LET r == tsData[Len(tsData) + 1 - i]
       IN  IF \/ ~Truthy(r.txnId)
              \/ Truthy(r.masterId)
              \/ ~Truthy(r.canon)
              \/ r.canon \in acc.stagingCanonSet
           THEN IntakeLoop_BottomUp(v, tsData, i + 1, acc)
           ELSE IntakeLoop_BottomUp(v, tsData, i + 1,
                  [stagingCanonSet |-> acc.stagingCanonSet \cup {r.canon},
                   rowsToAppend |->
                     Append(acc.rowsToAppend, NewStagingRow(v, r, Uuid(acc.next))),
                   next |-> acc.next + 1])

RECURSIVE IntakeLoop(_, _, _, _)
\* for (let i = 1; i < tsData.length; i++): acc holds stagingCanonSet,
\* rowsToAppend and the number of uuids drawn
IntakeLoop(v, tsData, i, acc) ==
  IF i > Len(tsData) THEN acc
  ELSE LET r == tsData[i]
       IN  IF \/ ~Truthy(r.txnId)
              \/ Truthy(r.masterId)
              \/ ~Truthy(r.canon)
              \/ r.canon \in acc.stagingCanonSet
           THEN IntakeLoop(v, tsData, i + 1, acc)
           ELSE IntakeLoop(v, tsData, i + 1,
                  [stagingCanonSet |-> acc.stagingCanonSet \cup {r.canon},
                   rowsToAppend |->
                     Append(acc.rowsToAppend, NewStagingRow(v, r, Uuid(acc.next))),
                   next |-> acc.next + 1])

\* populateStagingLookup<Brands|Items>_FromTransactionResolution, one run
IntakeRun ==
  /\ variant \in {"items", "brands"}
  /\ LET acc == IntakeLoop(variant, src, 1,
                  [stagingCanonSet |-> StagingCanonSet(stg),
                   rowsToAppend |-> <<>>, next |-> uuidNext])
     IN  /\ WithinCap(acc.next)
         /\ stg' = IF Len(acc.rowsToAppend) > 0
                   THEN AppendRows(stg, acc.rowsToAppend) ELSE stg
         /\ uuidNext' = acc.next
         /\ hist' = Push(hist, [op |-> "intake",
                                writes |-> IF Len(acc.rowsToAppend) > 0
                                           THEN 1 ELSE 0])
  /\ UNCHANGED <<auxVars, evalVars, variant, lk, src, txn, ctrl, run, issued, firstId>>

SrcRow(t, m, e, c) == [txnId |-> t, masterId |-> m, entered |-> e, canon |-> c]

\* rows of Transaction_Resolution: two spellings of one canonical name, a
\* numeric canonical name and its text twin, and one row per skip gate
SrcRows ==
  { SrcRow(Str(<<"t1">>), EMPTY, Str(<<"milk 1L">>), Str(<<"milk">>)),
    SrcRow(Str(<<"t2">>), EMPTY, Str(<<"Milk (1L)">>), Str(<<"milk">>)),
    SrcRow(Str(<<"t3">>), EMPTY, Str(<<"7up">>), Num(7)),
    SrcRow(Str(<<"t4">>), EMPTY, Str(<<"seven">>), Str(<<"7">>)),
    SrcRow(EMPTY, EMPTY, Str(<<"MILK-1L">>), Str(<<"milk">>)),
    SrcRow(Str(<<"t5">>), Str(<<"brand-1">>), Str(<<"MILK-1L">>), Str(<<"milk">>)),
    SrcRow(Str(<<"t6">>), EMPTY, Str(<<"MILK-1L">>), EMPTY) }

\* a transaction row appears in Transaction_Resolution (outside the scripts)
ExtAddSource ==
  /\ Len(src) < MaxSrc
  /\ \E r \in SrcRows : src' = Append(src, r)
  /\ hist' = Push(hist, [op |-> "edit", writes |-> 1])
  /\ UNCHANGED <<auxVars, evalVars, variant, stg, lk, txn, ctrl, uuidNext, run, issued, firstId>>

InitIntake ==
  /\ variant \in {"items", "brands"}
  /\ stg = <<>> /\ lk = <<>> /\ src = <<>> /\ txn = <<>> /\ ctrl = EMPTY
  /\ uuidNext = 1
  /\ run = RunIdle
  /\ hist = <<>>
  /\ issued = {}
  /\ firstId = <<>>
  /\ EvalUnused /\ AuxUnused

NextIntake ==
  \/ IntakeRun
  \/ ExtAddSource

SpecIntake == InitIntake /\ [][NextIntake]_vars

(* --------------------- intake: one row per name (C3) ------------------- *)
\* C3: the staging sheet never holds two rows with the same canonical name,
\* whatever the type of the canonical cells and however many source rows
\* share a name.
C3_OneRowPerCanonical ==
  \A i, j \in 1..Len(stg) :
    (i # j /\ stg[i].canon # EMPTY) => stg[i].canon # stg[j].canon

(* -------------------- intake: the new row (C22) ------------------------ *)
\* C22: every staging row appended by an intake run, brands or items, has
\* Is_Approved = false, Is_Lookup_Promoted = false, Review_Status "Pending",
\* no mapped master id and a staging id of its own, generated in the run
C22_IntakeRowDefaults ==
  \A i \in 1..Len(stg) :
    /\ stg[i].isApproved = Bool(FALSE)
    /\ stg[i].isPromoted = Bool(FALSE)
    /\ stg[i].review = Str(<<"Pending">>)
    /\ stg[i].mappedId = EMPTY
    /\ stg[i].stgId \in {Uuid(n) : n \in 1..MaxUuid}
    /\ \A j \in 1..Len(stg) : j # i => stg[j].stgId # stg[i].stgId

(* ------------------- intake: first occurrence (C12) ------------------- *)
\* the source rows that pass the first three skip rules and carry canonical c
Candidates(c) ==
  {i \in 1..Len(src) :
     src[i].txnId # EMPTY /\ src[i].masterId = EMPTY /\ src[i].canon = c}

FirstCandidate(c) == CHOOSE i \in Candidates(c) : \A m \in Candidates(c) : i <= m

\* C12: every staging row that an intake run creates is the only one the run
\* creates for its canonical name and carries the entered name and the
\* transaction id of the first source row, in table order, that has a
\* transaction id, no master id and that canonical name.
C12_FirstOccurrenceWins ==
  [][\A j \in (Len(stg) + 1)..Len(stg') :
       /\ \A m \in (Len(stg) + 1)..Len(stg') :
            m # j => stg'[m].canon # stg'[j].canon
       /\ Candidates(stg'[j].canon) # {}
       /\ stg'[j].srcTxn = src[FirstCandidate(stg'[j].canon)].txnId
       /\ stg'[j].entered = src[FirstCandidate(stg'[j].canon)].entered]_vars

\* the run found two source rows with one canonical name, entered under
\* different spellings, and created the one staging row of the sheet
C12_Witness ==
  /\ hist # <<>> /\ hist[Len(hist)] = [op |-> "intake", writes |-> 1]
  /\ Len(stg) = 1 /\ Len(src) = 2
  /\ Candidates(stg[1].canon) = {1, 2}
  /\ src[1].entered # src[2].entered
  /\ stg[1].srcTxn = src[1].txnId /\ stg[1].entered = src[1].entered

(* ------------------ machine-id backfill and orphan cleanup ------------- *)
\* range.setValues(output) over the data range that was read
SetValues(output) == Trim(output)

\* a backfill that looks at the name only
BackfillQualifies_NameOnly(r) == Truthy(r.name)

\* if (name && !itemId): the row qualifies for a new machine id
BackfillQualifies(r) == Truthy(r.name) /\ ~Truthy(r.idM)

RECURSIVE BackfillLoop_SameId(_, _, _)
\* a backfill whose identifier source returns the same value on every call
BackfillLoop_SameId(output, i, next) ==
  IF i > Len(output) THEN [output |-> output, next |-> next + 1]
  ELSE IF Truthy(output[i].name) /\ ~Truthy(output[i].idM)
       THEN BackfillLoop_SameId([output EXCEPT ![i].idM = Uuid(next)], i + 1, next)
       ELSE BackfillLoop_SameId(output, i + 1, next)

RECURSIVE BackfillLoop(_, _, _)
\* backfill_<Item|Product>IDs_Machine: for (let i = 1; i < output.length; i++)
BackfillLoop(output, i, next) ==
  IF i > Len(output) THEN [output |-> output, next |-> next]
  ELSE IF BackfillQualifies(output[i])
       THEN BackfillLoop([output EXCEPT ![i].idM = Uuid(next)], i + 1, next + 1)
       ELSE BackfillLoop(output, i + 1, next)

\* a cleanup that takes the identifier of a named row for an orphan
OrphanQualifies_Named(r) == Truthy(r.name) /\ Truthy(r.idM)

\* if (!name && brandId): the machine id is an orphan
OrphanQualifies(r) == ~Truthy(r.name) /\ Truthy(r.idM)

\* cleanupOrphan_<Item|Brand>IDs_Machine: the loop over output
OrphanOutput(data) ==
  [i \in 1..Len(data) |->
     IF OrphanQualifies(data[i]) THEN [data[i] EXCEPT !.idM = EMPTY] ELSE data[i]]

\* the first machine id each master row ever held, and every machine id
\* that was ever in the sheet
FirstIds(old, sheet) ==
  [i \in 1..(IF Len(old) > Len(sheet) THEN Len(old) ELSE Len(sheet)) |->
     IF i <= Len(old) /\ old[i] # EMPTY THEN old[i]
     ELSE IF i <= Len(sheet) THEN sheet[i].idM ELSE EMPTY]
IdsIn(sheet) == {sheet[i].idM : i \in 1..Len(sheet)} \ {EMPTY}

\* backfill_ItemIDs_Machine_LookupItems / backfill_ProductIDs_Machine_LookupProducts
BackfillMachine ==
  /\ variant \in {"items", "products"}
  /\ IF Len(lk) < 1
     THEN /\ hist' = Push(hist, [op |-> "backfillMachine", writes |-> 0])
          /\ UNCHANGED <<lk, uuidNext, issued, firstId>>
     ELSE LET res == BackfillLoop(lk, 1, uuidNext)
          IN  /\ WithinCap(res.next)
              /\ lk' = SetValues(res.output)
              /\ uuidNext' = res.next
              /\ hist' = Push(hist, [op |-> "backfillMachine", writes |-> 1])
              /\ issued' = issued \cup IdsIn(res.output)
              /\ firstId' = FirstIds(firstId, res.output)
  /\ UNCHANGED <<auxVars, evalVars, variant, stg, src, txn, ctrl, run>>

\* cleanupOrphan_ItemIDs_Machine_LookupItems / cleanupOrphan_BrandIDs_Machine_LookupBrands
CleanupOrphan ==
  /\ variant \in {"items", "brands"}
  /\ IF Len(lk) < 1
     THEN /\ hist' = Push(hist, [op |-> "cleanupOrphan", writes |-> 0])
          /\ UNCHANGED lk
     ELSE /\ lk' = SetValues(OrphanOutput(lk))
          /\ hist' = Push(hist, [op |-> "cleanupOrphan", writes |-> 1])
  /\ UNCHANGED <<auxVars, evalVars, variant, stg, src, txn, ctrl, uuidNext, run, issued, firstId>>

RECURSIVE ApplyUpdates(_, _, _)
\* the write-back loop of a promotion run, all of it
ApplyUpdates(sheet, updates, k) ==
  IF k > Len(updates) THEN sheet
  ELSE LET upd == updates[k]
           s1 == SetCell(sheet, upd.row, StgFields, "mappedId", upd.mappedId)
           s2 == SetCell(s1, upd.row, StgFields, "isPromoted", Bool(TRUE))
           s3 == SetCell(s2, upd.row, StgFields, "notes", upd.note)
       IN  ApplyUpdates(s3, updates, k + 1)

\* promoteApproved<Items|Brands|Products>_FromStaging_ToLookup, a complete run
PromoteComplete ==
  /\ variant \in Variants
  /\ run.pc = "idle"
  /\ LET acc == PromoLoop(variant, stg, 1,
                  [lookupAppendRows |-> <<>>, stagingUpdates |-> <<>>,
                   next |-> uuidNext, skipped |-> 0])
         newLk == IF Len(acc.lookupAppendRows) > 0
                  THEN AppendRows(lk, acc.lookupAppendRows) ELSE lk
     IN  /\ WithinCap(acc.next)
         /\ lk' = newLk
         /\ stg' = ApplyUpdates(stg, acc.stagingUpdates, 1)
         /\ uuidNext' = acc.next
         /\ hist' = Push(hist, [op |-> "promote",
                                writes |-> IF Len(acc.lookupAppendRows) > 0
                                           THEN 1 ELSE 0])
         /\ issued' = issued \cup IdsIn(newLk)
         /\ firstId' = FirstIds(firstId, newLk)
  /\ UNCHANGED <<auxVars, evalVars, variant, src, txn, ctrl, run>>

\* a user clears the name cell of a master row (outside the scripts)
ExtClearName ==
  /\ \E i \in 1..Len(lk) :
       /\ lk[i].name # EMPTY
       /\ lk' = Trim([lk EXCEPT ![i].name = EMPTY])
  /\ hist' = Push(hist, [op |-> "edit", writes |-> 1])
  /\ UNCHANGED <<auxVars, evalVars, variant, stg, src, txn, ctrl, uuidNext, run, issued, firstId>>

\* a user types a name into the empty name cell of a master row
ExtRestoreName ==
  /\ \E i \in 1..Len(lk) :
       /\ lk[i].name = EMPTY
       /\ lk' = [lk EXCEPT ![i].name = Str(<<"Tea">>)]
  /\ hist' = Push(hist, [op |-> "edit", writes |-> 1])
  /\ UNCHANGED <<auxVars, evalVars, variant, stg, src, txn, ctrl, uuidNext, run, issued, firstId>>

(* ------------------ Transaction_Raw backfill and cleanup --------------- *)
TxnFields == {"trxDate", "item", "qtyVal", "qtyUnit", "price", "txnId", "other"}
Prereq == <<"trxDate", "item", "qtyVal", "qtyUnit", "price">>

\* isValidTxn = r[trxDate] && r[item] && r[qtyVal] && r[qtyUnit] && r[price]
IsValidTxn(r) == \A k \in 1..Len(Prereq) : Truthy(r[Prereq[k]])

\* if (r[IDX.txnId]) continue: the row already has its id
TxnHasId(r) == Truthy(r.txnId)

RECURSIVE BackfillTxnLoop(_, _, _, _, _)
\* backfillTxnIDs_TransactionRaw: data is the snapshot, sheet takes one
\* setValue per generated id
BackfillTxnLoop(data, sheet, i, next, generated) ==
  IF i > Len(data) THEN [sheet |-> sheet, next |-> next, generated |-> generated]
  ELSE IF ~IsValidTxn(data[i]) \/ TxnHasId(data[i])
       THEN BackfillTxnLoop(data, sheet, i + 1, next, generated)
       ELSE BackfillTxnLoop(data, SetCell(sheet, i, TxnFields, "txnId", Uuid(next)),
                            i + 1, next + 1, generated + 1)

BackfillTxn ==
  /\ variant = "txn"
  /\ LET res == BackfillTxnLoop(txn, txn, 1, uuidNext, 0)
     IN  /\ WithinCap(res.next)
         /\ txn' = res.sheet
         /\ uuidNext' = res.next
         /\ hist' = Push(hist, [op |-> "backfillTxn", writes |-> res.generated])
  /\ UNCHANGED <<auxVars, evalVars, variant, stg, lk, src, ctrl, run, issued, firstId>>

\* a count that takes a cell holding 0 for an empty one
FilledCount_Truthy(r) == Cardinality({k \in 1..Len(Prereq) : Truthy(r[Prereq[k]])})

\* prereqValues.filter(v => v !== '' && v !== null).length
FilledCount(r) == Cardinality({k \in 1..Len(Prereq) : r[Prereq[k]] # EMPTY})

\* filledCount > 0 && filledCount < prereqValues.length
PartiallyFilled(r) == FilledCount(r) > 0 /\ FilledCount(r) < Len(Prereq)

\* the loose variant: clear Txn_ID_Machine of a partial row that has one
LooseOutput(data) ==
  [i \in 1..Len(data) |->
     IF PartiallyFilled(data[i]) /\ Truthy(data[i].txnId)
     THEN [data[i] EXCEPT !.txnId = EMPTY] ELSE data[i]]

\* the strict variant: output[i] = new Array(r.length).fill('')
StrictOutput(data) ==
  [i \in 1..Len(data) |->
     IF PartiallyFilled(data[i]) THEN BlankRow(TxnFields) ELSE data[i]]

\* cleanupInvalidTransactions_TransactionRaw, non-destructive variant
CleanupTxnLoose ==
  /\ variant = "txn"
  /\ IF Len(txn) < 1
     THEN /\ hist' = Push(hist, [op |-> "cleanupTxnLoose", writes |-> 0])
          /\ UNCHANGED txn
     ELSE /\ txn' = SetValues(LooseOutput(txn))
          /\ hist' = Push(hist, [op |-> "cleanupTxnLoose", writes |-> 1])
  /\ UNCHANGED <<auxVars, evalVars, variant, stg, lk, src, ctrl, uuidNext, run, issued, firstId>>

\* cleanupInvalidTransactions_TransactionRaw, row-clearing variant
CleanupTxnStrict ==
  /\ variant = "txn"
  /\ IF Len(txn) < 1
     THEN /\ hist' = Push(hist, [op |-> "cleanupTxnStrict", writes |-> 0])
          /\ UNCHANGED txn
     ELSE /\ txn' = SetValues(StrictOutput(txn))
          /\ hist' = Push(hist, [op |-> "cleanupTxnStrict", writes |-> 1])
  /\ UNCHANGED <<auxVars, evalVars, variant, stg, lk, src, ctrl, uuidNext, run, issued, firstId>>

\* a user clears the five natural-key cells of a transaction row
ExtClearTxn ==
  /\ variant = "txn"
  /\ \E i \in 1..Len(txn) :
       /\ FilledCount(txn[i]) > 0
       /\ txn' = Trim([txn EXCEPT ![i] =
                         [f \in TxnFields |->
                            IF f \in {"txnId", "other"} THEN txn[i][f] ELSE EMPTY]])
  /\ hist' = Push(hist, [op |-> "edit", writes |-> 1])
  /\ UNCHANGED <<auxVars, evalVars, variant, stg, lk, src, ctrl, uuidNext, run, issued, firstId>>

\* an identifier that was in the sheet before the first run
OldId(i) == Str(<<"old-id-", DigitTok[i + 1]>>)

\* master rows entered by hand: with or without a name, with or without an id
LkInitRows(i) ==
  { ManualLkRow(n, id) : n \in {EMPTY, Str(<<"Tea">>)}, id \in {EMPTY, OldId(i)} }

TxnRow(d, it, qv, qu, pr, id) ==
  [trxDate |-> d, item |-> it, qtyVal |-> qv, qtyUnit |-> qu, price |-> pr,
   txnId |-> id, other |-> Str(<<"memo">>)]

\* the text cells of a transaction row: none, all, or only the date filled
TxnTexts ==
  { <<EMPTY, EMPTY, EMPTY>>,
    <<Str(<<"2026-01-05">>), Str(<<"milk">>), Str(<<"l">>)>>,
    <<Str(<<"2026-01-05">>), EMPTY, EMPTY>> }

\* transaction rows as users leave them: quantity and price empty, 0 or
\* positive, with or without an id from an earlier run
TxnInitRows(i) ==
  { TxnRow(tx[1], tx[2], qv, tx[3], pr, id) :
      tx \in TxnTexts, qv \in {EMPTY, Num(0), Num(2)},
      pr \in {EMPTY, Num(0), Num(5)}, id \in {EMPTY, OldId(i)} }

\* the tables of up to Len(rowsAt) rows whose i-th row is one of rowsAt[i]
TablesUpTo(rowsAt) ==
  UNION { {s \in [1..k -> UNION {rowsAt[i] : i \in 1..k}] :
             \A i \in 1..k : s[i] \in rowsAt[i]} : k \in 0..Len(rowsAt) }

\* either a master sheet with its staging sheet, or Transaction_Raw
InitRecon ==
  /\ \/ /\ variant \in Variants
        /\ lk \in TablesUpTo([i \in 1..MaxLk |-> LkInitRows(i)])
        /\ stg = <<StgRow(Str(<<"coke">>), EMPTY, TRUE, EMPTY)>>
        /\ txn = <<>>
     \/ /\ variant = "txn"
        /\ lk = <<>> /\ stg = <<>>
        /\ txn \in TablesUpTo([i \in 1..MaxTxn |-> TxnInitRows(i)]) \ {<<>>}
  /\ src = <<>> /\ ctrl = EMPTY
  /\ uuidNext = 1
  /\ run = RunIdle
  /\ hist = <<>>
  /\ issued = IdsIn(lk)
  /\ firstId = FirstIds(<<>>, lk)
  /\ EvalUnused /\ AuxUnused

NextRecon ==
  \/ BackfillMachine
  \/ CleanupOrphan
  \/ PromoteComplete
  \/ ExtClearName
  \/ ExtRestoreName
  \/ BackfillTxn
  \/ CleanupTxnLoose
  \/ CleanupTxnStrict
  \/ ExtClearTxn

SpecRecon == InitRecon /\ [][NextRecon]_vars

(* ------------------ properties of backfill and cleanup ----------------- *)
LastOp == hist[Len(hist)].op
BackfillOps == {"backfillMachine", "backfillTxn"}

\* this step is a backfill run that directly follows a run of the same
\* backfiller
SecondBackfillRun ==
  /\ hist # <<>> /\ hist' # <<>>
  /\ LastOp \in BackfillOps
  /\ hist'[Len(hist')].op = LastOp

\* C4 as stated: a backfiller (Lookup_Items, Lookup_Products,
\* Transaction_Raw) run directly after a run of itself, with no edit in
\* between, leaves the identifier assignments as they are and performs zero
\* writes to the table.
C4_SecondRunZeroWrites ==
  [][SecondBackfillRun =>
       /\ lk' = lk /\ txn' = txn
       /\ hist'[Len(hist')].writes = 0]_vars

\* C4 amended: the second run changes no cell; the Transaction_Raw backfiller
\* performs zero writes, the Lookup_Items and Lookup_Products backfillers
\* rewrite the data range once with the values it already holds.
C4_SecondRunChangesNothing ==
  [][SecondBackfillRun =>
       /\ lk' = lk /\ txn' = txn
       /\ hist'[Len(hist')].op = "backfillTxn" => hist'[Len(hist')].writes = 0
       /\ hist'[Len(hist')].op = "backfillMachine" => hist'[Len(hist')].writes <= 1]_vars

\* a second master backfill run has rewritten the range after a first run
\* that assigned an identifier
C4_Witness ==
  /\ Len(hist) = 2
  /\ hist[1].op = "backfillMachine"
  /\ hist[2] = [op |-> "backfillMachine", writes |-> 1]
  /\ \E i \in 1..Len(lk) : lk[i].idM = Uuid(1)

AllKeyFieldsPresent(r) == \A k \in 1..Len(Prereq) : r[Prereq[k]] # EMPTY

\* C5: after a complete orphan-cleanup run (master tables, loose and strict
\* Transaction_Raw cleanup) every row with an identifier has all its
\* natural-key fields, rows with five empty natural-key fields included.
C5_IdImpliesNaturalKey ==
  hist # <<>> =>
    /\ LastOp = "cleanupOrphan" =>
         \A i \in 1..Len(lk) : lk[i].idM # EMPTY => lk[i].name # EMPTY
    /\ LastOp \in {"cleanupTxnLoose", "cleanupTxnStrict"} =>
         \A i \in 1..Len(txn) :
           txn[i].txnId # EMPTY => AllKeyFieldsPresent(txn[i])

\* C6: in Transaction_Raw, after the Txn-ID backfiller followed by the
\* invalid-transaction cleanup, a row has Txn_ID_Machine iff all five
\* natural-key cells are filled, a numeric 0 counting as filled.
C6_TxnIdIffNaturalKey ==
  (/\ Len(hist) = 2
   /\ hist[1].op = "backfillTxn"
   /\ hist[2].op \in {"cleanupTxnLoose", "cleanupTxnStrict"}) =>
    \A i \in 1..Len(txn) :
      txn[i].txnId # EMPTY <=> AllKeyFieldsPresent(txn[i])

\* C7: after the machine-id backfiller and the orphan cleanup have both run
\* on a master table, in either order and with no edit in between, a row has
\* a machine id iff it has a name.
C7_IdIffName ==
  (/\ Len(hist) = 2
   /\ {hist[1].op, hist[2].op} = {"backfillMachine", "cleanupOrphan"}) =>
    \A i \in 1..Len(lk) : lk[i].idM # EMPTY <=> lk[i].name # EMPTY

\* both runs had work to do: the table holds an identifier drawn by the
\* backfill and a nameless row whose identifier the cleanup removed
C7_Witness ==
  /\ Len(hist) = 2
  /\ {hist[1].op, hist[2].op} = {"backfillMachine", "cleanupOrphan"}
  /\ \E i, j \in 1..Len(lk) :
       /\ lk[i].idM = Uuid(1) /\ lk[i].name # EMPTY
       /\ lk[j].name = EMPTY /\ lk[j].idM = EMPTY /\ firstId[j] # EMPTY

NoSharedId ==
  \A i, j \in 1..Len(lk) :
    (i # j /\ lk[i].idM # EMPTY) => lk[i].idM # lk[j].idM

\* C8 as stated: a master row that holds a machine id never holds another
\* one than the first it was given, whatever backfill, cleanup and promotion
\* runs and name edits follow, and no machine id is held by two rows.
C8_MachineIdNeverDiffers ==
  /\ \A i \in 1..Len(lk) :
       (firstId[i] # EMPTY /\ lk[i].idM # EMPTY) => lk[i].idM = firstId[i]
  /\ NoSharedId

\* one step of a master row's identifier: kept, or removed by the orphan
\* cleanup from a nameless row, or given where there was none a value no row
\* ever held
IdStepOK ==
  \A i \in 1..Len(lk') :
    LET old == IF i <= Len(lk) THEN lk[i].idM ELSE EMPTY
        new == lk'[i].idM
    IN  \/ new = old
        \/ /\ old # EMPTY /\ new = EMPTY
           /\ lk[i].name = EMPTY
           /\ hist'[Len(hist')].op = "cleanupOrphan"
        \/ /\ old = EMPTY /\ new # EMPTY
           /\ new \notin issued

\* C8 amended: a machine id is never replaced directly by another one; it
\* only goes from present to empty, in an orphan cleanup of a row without
\* name, or from empty to a value that no row ever held; no machine id is
\* held by two rows, and none is given out twice.
C8_MachineIdNeverReused ==
  [][IdStepOK]_vars /\ []NoSharedId

\* a row that lost its first identifier to the cleanup holds a later one
C8_Witness ==
  /\ hist # <<>> /\ LastOp = "backfillMachine"
  /\ \E i \in 1..Len(lk) :
       /\ firstId[i] # EMPTY
       /\ lk[i].idM \notin {EMPTY, firstId[i]}

(* ------------------ which rows a backfill fills (C23) ------------------ *)
\* the identifiers of the rows of a master table, and of Transaction_Raw
TxnIdsIn(sheet) == {sheet[i].txnId : i \in 1..Len(sheet)} \ {EMPTY}

\* C23: a machine-id backfill run gives a new identifier to exactly the rows
\* whose name (for Transaction_Raw: every one of the five natural-key cells)
\* is non-empty and whose identifier is empty; every other row keeps its
\* identifier cell; the identifiers of one run differ from each other and
\* from every identifier the table held
C23_BackfillFillsExactlyNamedRows ==
  [][/\ hist'[Len(hist')].op = "backfillMachine" =>
          /\ Len(lk') = Len(lk)
          /\ \A i \in 1..Len(lk) :
               IF lk[i].name # EMPTY /\ lk[i].idM = EMPTY
               THEN /\ lk'[i].idM # EMPTY
                    /\ lk'[i].idM \notin IdsIn(lk)
                    /\ \A j \in 1..Len(lk) : j # i => lk'[j].idM # lk'[i].idM
               ELSE lk'[i].idM = lk[i].idM
     /\ hist'[Len(hist')].op = "backfillTxn" =>
          /\ Len(txn') = Len(txn)
          /\ \A i \in 1..Len(txn) :
               IF AllKeyFieldsPresent(txn[i]) /\ txn[i].txnId = EMPTY
               THEN /\ txn'[i].txnId # EMPTY
                    /\ txn'[i].txnId \notin TxnIdsIn(txn)
                    /\ \A j \in 1..Len(txn) : j # i => txn'[j].txnId # txn'[i].txnId
               ELSE txn'[i].txnId = txn[i].txnId]_vars

(* --------------- partially filled transaction rows (C24) --------------- *)
\* the number of natural-key cells of a row that hold something
KeyCellsFilled(r) == Cardinality({f \in {"trxDate", "item", "qtyVal", "qtyUnit", "price"} :
                                    r[f] # EMPTY})

\* row i of a sheet, below the last row with content an empty row
TxnRowAt(sheet, i) == IF i <= Len(sheet) THEN sheet[i] ELSE BlankRow(TxnFields)

\* C24: a Transaction_Raw cleanup acts on a row exactly when 0 < f < 5 of its
\* five natural-key cells are filled (the loose variant empties its
\* Txn_ID_Machine, the strict variant empties the row); a row with f = 0 or
\* f = 5 is written back with every cell as it was, whatever its identifier
C24_OnlyPartialRowsActedOn ==
  [][\A i \in 1..Len(txn) :
       LET f == KeyCellsFilled(txn[i])
           op == hist'[Len(hist')].op
       IN  /\ op = "cleanupTxnLoose" =>
                TxnRowAt(txn', i) = IF 0 < f /\ f < 5
                                    THEN [txn[i] EXCEPT !.txnId = EMPTY]
                                    ELSE txn[i]
           /\ op = "cleanupTxnStrict" =>
                TxnRowAt(txn', i) = IF 0 < f /\ f < 5
                                    THEN BlankRow(TxnFields)
                                    ELSE txn[i]]_vars

\* a strict run has emptied a partial row, or a run of either variant has
\* left alone a fully filled row that holds a 0 and an identifier
C24_Witness ==
  /\ hist # <<>>
  /\ \/ /\ LastOp = "cleanupTxnStrict"
        /\ hist[Len(hist)].writes = 1
        /\ txn = <<>>
     \/ /\ LastOp \in {"cleanupTxnLoose", "cleanupTxnStrict"}
        /\ \E i \in 1..Len(txn) :
             /\ KeyCellsFilled(txn[i]) = 5
             /\ txn[i].qtyVal = Num(0)
             /\ txn[i].txnId # EMPTY

(* --------------------------- human-readable ids ------------------------ *)
ID_PREFIX == "ITEM-"
PAD_LENGTH == 6

IsDigit(tok) == \E d \in 1..10 : DigitTok[d] = tok
DigitVal(tok) == (CHOOSE d \in 1..10 : DigitTok[d] = tok) - 1

RECURSIVE FromDigits(_)
\* the number a sequence of decimal digits stands for
FromDigits(ds) ==
  IF ds = <<>> THEN 0
  ELSE 10 * FromDigits(SubSeq(ds, 1, Len(ds) - 1)) + DigitVal(ds[Len(ds)])

RECURSIVE LeadingDigits(_)
LeadingDigits(toks) ==
  IF toks = <<>> \/ ~IsDigit(Head(toks)) THEN <<>>
  ELSE <<Head(toks)>> \o LeadingDigits(Tail(toks))

\* parseInt(text, 10): <<n>>, or <<>> for NaN
ParseInt(toks) ==
  IF LeadingDigits(toks) = <<>> THEN <<>> ELSE <<FromDigits(LeadingDigits(toks))>>

\* String(n).padStart(len, '0')
PadStart(ds, len) ==
  IF Len(ds) >= len THEN ds ELSE [k \in 1..(len - Len(ds)) |-> "0"] \o ds

\* an identifier text without the zero padding
HumanId_NoPad(n) == Str(<<ID_PREFIX>> \o ToDigits(n))

\* 'ITEM-' + String(counter).padStart(6, '0')
HumanId(n) == Str(<<ID_PREFIX>> \o PadStart(ToDigits(n), PAD_LENGTH))

\* Number(cell) || 0
CounterStart(c) ==
  CASE c.ty = "number" -> FromDigits(c.s)
    [] c.ty = "boolean" -> IF c.s = <<"true">> THEN 1 ELSE 0
    [] c.ty = "string" ->
         IF \A k \in 1..Len(c.s) : IsDigit(c.s[k]) THEN FromDigits(c.s) ELSE 0

\* the sheet layouts: the identifier column that Lookup_Items has
HumanLayouts == {"Item_ID_H", "Item_ID_Human"}

\* if (r[itemIdM] && !r[itemIdH])
CounterQualifies(r) == Truthy(r.Item_ID_M) /\ ~Truthy(r.Item_ID_H)

RECURSIVE GenerateLoop(_, _, _, _, _)
\* generateItemID_H: the loop over the snapshot, one setValue per new id
GenerateLoop(data, sheet, i, counter, wrote) ==
  IF i > Len(data) THEN [sheet |-> sheet, counter |-> counter, wrote |-> wrote]
  ELSE IF CounterQualifies(data[i])
       THEN GenerateLoop(data,
                         SetCell(sheet, i, LkFields, "Item_ID_H", HumanId(counter + 1)),
                         i + 1, counter + 1, TRUE)
       ELSE GenerateLoop(data, sheet, i + 1, counter, wrote)

HumanIdsIn(sheet) ==
  ({sheet[i].Item_ID_H : i \in 1..Len(sheet)} \cup
   {sheet[i].idHuman : i \in 1..Len(sheet)}) \ {EMPTY}

\* generateItemID_H
GenerateItemID_H ==
  /\ variant = "Item_ID_H"
  /\ IF Len(lk) < 1
     THEN /\ hist' = Push(hist, [op |-> "generateItemID_H", writes |-> 0])
          /\ UNCHANGED <<lk, ctrl, issued>>
     ELSE LET res == GenerateLoop(lk, lk, 1, CounterStart(ctrl), FALSE)
          IN  /\ Cardinality(issued \cup HumanIdsIn(res.sheet)) <= MaxIds
                 \* cap: behaviours are finite
              /\ lk' = res.sheet
              /\ ctrl' = IF res.wrote THEN Num(res.counter) ELSE ctrl
              /\ hist' = Push(hist, [op |-> "generateItemID_H",
                                     writes |-> IF res.wrote THEN 1 ELSE 0])
              /\ issued' = issued \cup HumanIdsIn(res.sheet)
  /\ UNCHANGED <<auxVars, evalVars, variant, stg, src, txn, uuidNext, run, firstId>>

\* the number in an identifier of the form ITEM-<digits>, as a set
HumanNumber(val) ==
  IF val.ty = "string" /\ val.s # <<>> /\ val.s[1] = ID_PREFIX
  THEN {ParseInt(Tail(val.s))[k] : k \in 1..Len(ParseInt(Tail(val.s)))}
  ELSE {}

\* the loop that finds the current max Item_ID_Human
MaxHumanId(data) ==
  LET nums == UNION {HumanNumber(data[i].idHuman) : i \in 1..Len(data)}
  IN  IF nums = {} THEN 0 ELSE CHOOSE n \in nums : \A m \in nums : m <= n

\* if (itemName && !itemIdHuman)
ScanQualifies(r) == Truthy(r.name) /\ ~Truthy(r.idHuman)

RECURSIVE ScanLoop(_, _, _)
\* backfillItemIDs_Human_LookupItems: the loop over output
ScanLoop(output, i, maxId) ==
  IF i > Len(output) THEN output
  ELSE IF ScanQualifies(output[i])
       THEN ScanLoop([output EXCEPT ![i].idHuman = HumanId(maxId + 1)],
                     i + 1, maxId + 1)
       ELSE ScanLoop(output, i + 1, maxId)

\* backfillItemIDs_Human_LookupItems
BackfillHuman ==
  /\ variant = "Item_ID_Human"
  /\ IF Len(lk) < 1
     THEN /\ hist' = Push(hist, [op |-> "backfillHuman", writes |-> 0])
          /\ UNCHANGED <<lk, issued>>
     ELSE LET output == ScanLoop(lk, 1, MaxHumanId(lk))
          IN  /\ Cardinality(issued \cup HumanIdsIn(output)) <= MaxIds
                 \* cap: behaviours are finite
              /\ lk' = SetValues(output)
              /\ hist' = Push(hist, [op |-> "backfillHuman", writes |-> 1])
              /\ issued' = issued \cup HumanIdsIn(output)
  /\ UNCHANGED <<auxVars, evalVars, variant, stg, src, txn, ctrl, uuidNext, run, firstId>>

\* a user clears the human-id cell of a row
ExtClearHumanId ==
  /\ \E i \in 1..Len(lk) :
       /\ lk[i].Item_ID_H # EMPTY \/ lk[i].idHuman # EMPTY
       /\ lk' = Trim([lk EXCEPT ![i].Item_ID_H = EMPTY, ![i].idHuman = EMPTY])
  /\ hist' = Push(hist, [op |-> "edit", writes |-> 1])
  /\ UNCHANGED <<auxVars, evalVars, variant, stg, src, txn, ctrl, uuidNext, run, issued, firstId>>

\* a user clears a whole row
ExtClearRow ==
  /\ \E i \in 1..Len(lk) :
       /\ ~IsBlank(lk[i])
       /\ lk' = Trim([lk EXCEPT ![i] = BlankRow(LkFields)])
  /\ hist' = Push(hist, [op |-> "edit", writes |-> 1])
  /\ UNCHANGED <<auxVars, evalVars, variant, stg, src, txn, ctrl, uuidNext, run, issued, firstId>>

\* a row as a user enters it: a name, a machine id, no human id
EnteredRow(i) ==
  [BlankRow(LkFields) EXCEPT !.name = Str(<<"Tea">>),
                             !.idM = OldId(i), !.Item_ID_M = OldId(i)]

\* a user enters a new row below the last one
ExtAddRow ==
  /\ Len(lk) < MaxLk
  /\ lk' = Append(lk, EnteredRow(Len(lk) + 1))
  /\ hist' = Push(hist, [op |-> "edit", writes |-> 1])
  /\ UNCHANGED <<auxVars, evalVars, variant, stg, src, txn, ctrl, uuidNext, run, issued, firstId>>

\* rows entered by hand, some without the cell the backfill looks at
HumanInitRows(i) ==
  { EnteredRow(i),
    [EnteredRow(i) EXCEPT !.name = EMPTY, !.Item_ID_M = EMPTY] }

InitHuman ==
  /\ variant \in HumanLayouts
  /\ lk \in TablesUpTo([i \in 1..MaxLk |-> HumanInitRows(i)])
  /\ ctrl \in IF variant = "Item_ID_H"
              THEN {EMPTY, Num(0), Num(9), Num(41)} ELSE {EMPTY}
  /\ stg = <<>> /\ src = <<>> /\ txn = <<>>
  /\ uuidNext = 1
  /\ run = RunIdle
  /\ hist = <<>>
  /\ issued = {}
  /\ firstId = <<>>
  /\ EvalUnused /\ AuxUnused

NextHuman ==
  \/ GenerateItemID_H
  \/ BackfillHuman
  \/ ExtClearHumanId
  \/ ExtClearRow
  \/ ExtAddRow

SpecHuman == InitHuman /\ [][NextHuman]_vars

(* ----------------------- properties of human ids ----------------------- *)
HumanIdAt(sheet, i) ==
  IF i > Len(sheet) THEN EMPTY
  ELSE IF variant = "Item_ID_H" THEN sheet[i].Item_ID_H ELSE sheet[i].idHuman

\* C9: whatever human-id backfill runs (counter-driven or max-scan) and
\* clearings of rows or of human-id cells happen, a human id that a row once
\* held is never assigned again, to any row.
C9_HumanIdNeverReassigned ==
  [][\A i \in 1..Len(lk') :
       (HumanIdAt(lk', i) # EMPTY /\ HumanIdAt(lk', i) # HumanIdAt(lk, i))
         => HumanIdAt(lk', i) \notin issued]_vars

QualifyingRows == {i \in 1..Len(lk) : CounterQualifies(lk[i])}
RankOf(i) == Cardinality({j \in QualifyingRows : j <= i})

\* the text is ITEM- followed by at least six digits that read as n
ReadsAs(id, n) ==
  /\ id.ty = "string" /\ Len(id.s) >= 1 + PAD_LENGTH
  /\ id.s[1] = ID_PREFIX
  /\ \A k \in 2..Len(id.s) : IsDigit(id.s[k])
  /\ FromDigits(Tail(id.s)) = n
  /\ Len(id.s) > 1 + PAD_LENGTH => id.s[2] # "0"

\* C10: a complete counter-driven run that finds the stored counter c and k
\* qualifying rows gives them ITEM- and the zero-padded numbers c+1 .. c+k in
\* row order and stores c+k; with k = 0 it does not write the counter; the
\* stored counter never decreases.
C10_CounterDrivenIds ==
  [][LET c == CounterStart(ctrl)
         k == Cardinality(QualifyingRows)
     IN  /\ hist'[Len(hist')].op = "generateItemID_H" =>
              /\ \A i \in QualifyingRows :
                   ReadsAs(lk'[i].Item_ID_H, c + RankOf(i))
              /\ \A i \in (1..Len(lk)) \ QualifyingRows : lk'[i] = lk[i]
              /\ k > 0 => ctrl' = Num(c + k) /\ hist'[Len(hist')].writes = 1
              /\ k = 0 => ctrl' = ctrl /\ hist'[Len(hist')].writes = 0
         /\ CounterStart(ctrl') >= c]_vars

\* the run found counter 41 and two qualifying rows
C10_Witness ==
  /\ hist # <<>> /\ hist[Len(hist)] = [op |-> "generateItemID_H", writes |-> 1]
  /\ ctrl = Num(43)
  /\ Len(lk) >= 2
  /\ lk[1].Item_ID_H = Str(<<"ITEM-", "0", "0", "0", "0", "4", "2">>)
  /\ lk[2].Item_ID_H = Str(<<"ITEM-", "0", "0", "0", "0", "4", "3">>)

(* ------------------------ evaluation log updater ----------------------- *)
DEBUG_MODE == TRUE

RECURSIVE TrimLeft(_)
TrimLeft(s) == IF s # <<>> /\ Head(s) = " " THEN TrimLeft(Tail(s)) ELSE s

RECURSIVE TrimRight(_)
TrimRight(s) ==
  IF s # <<>> /\ s[Len(s)] = " " THEN TrimRight(SubSeq(s, 1, Len(s) - 1)) ELSE s

\* text.trim()
TrimText(s) == TrimRight(TrimLeft(s))

\* text.toLowerCase(), token by token
LowerTok(tok) ==
  CASE tok \in {"Milk", "MILK"} -> "milk"
    [] tok = "Tea" -> "tea"
    [] tok = "Amul" -> "amul"
    [] tok = "Amul Milk 1L" -> "amul milk 1l"
    [] tok = "BigBasket" -> "bigbasket"
    [] tok = "N/A" -> "n/a"
    [] OTHER -> tok

\* norm = (v) => (v || "").toString().trim().toLowerCase()
Norm(v) ==
  IF ~Truthy(v) THEN <<>>
  ELSE [k \in 1..Len(TrimText(v.s)) |-> LowerTok(TrimText(v.s)[k])]

\* Number(v): <<n>>, or <<>> for NaN
NumberOf(v) ==
  CASE v.ty = "number" -> <<FromDigits(v.s)>>
    [] v.ty = "boolean" -> IF v.s = <<"true">> THEN <<1>> ELSE <<0>>
    [] v.ty = "string" ->
         IF TrimText(v.s) = <<>> THEN <<0>>
         ELSE IF \A k \in 1..Len(TrimText(v.s)) : IsDigit(TrimText(v.s)[k])
              THEN <<FromDigits(TrimText(v.s))>>
              ELSE <<>>

\* num(a) === num(b): NaN equals nothing
NumEq(a, b) == NumberOf(a) # <<>> /\ NumberOf(a) = NumberOf(b)

EvalFields == {"inputReady", "compareId", "evaluationId", "summaryUI",
               "item", "brand", "product", "platform", "normQty", "price"}
LogFields == {"item", "brand", "product", "platform", "normQty", "price", "evalId"}

\* if (inputReady === true && evaluationId)
TriggerGate(row) == IsTrue(row.inputReady) /\ Truthy(row.evaluationId)

\* the gates without the test of Summary_UI
ProcessGate_NoSummary(row) ==
  /\ IsTrue(row.inputReady)
  /\ NumberOf(row.compareId) = <<1>>
  /\ Truthy(row.evaluationId)

\* GATING LOGIC of processEvaluationRow_
ProcessGate(row) ==
  /\ IsTrue(row.inputReady)
  /\ NumberOf(row.compareId) = <<1>>
  /\ Truthy(row.evaluationId)
  /\ ~(~Truthy(row.summaryUI) \/ TrimText(row.summaryUI.s) = <<>>)

\* buildSnapshot_: the Evaluated_* keys taken from the Planned_/Current_ cells
BuildSnapshot(row) ==
  [item |-> row.item, brand |-> row.brand, product |-> row.product,
   platform |-> row.platform, normQty |-> row.normQty, price |-> row.price,
   evalId |-> row.evaluationId]

\* buildLogRow_: one cell per log column, from the snapshot key of that name
BuildLogRow(snapshot) == [f \in LogFields |-> snapshot[f]]

\* const match = ... of findMatchRow_
Match(row, snapshot) ==
  /\ Norm(row.item) = Norm(snapshot.item)
  /\ Norm(row.brand) = Norm(snapshot.brand)
  /\ Norm(row.product) = Norm(snapshot.product)
  /\ Norm(row.platform) = Norm(snapshot.platform)
  /\ NumEq(row.normQty, snapshot.normQty)
  /\ NumEq(row.price, snapshot.price)

\* findMatchRow_: the first matching data row, 0 when there is none
FindMatchRow(snapshot, logData) ==
  LET hits == {i \in 1..Len(logData) : Match(logData[i], snapshot)}
  IN  IF hits = {} THEN 0 ELSE CHOOSE i \in hits : \A m \in hits : i <= m

\* resetEvaluatorRow_: clearContent() on the input cells and Evaluation_ID
ResetEvaluatorRow(row) ==
  [f \in EvalFields |->
     IF f \in {"item", "brand", "product", "platform", "price", "evaluationId"}
     THEN EMPTY ELSE row[f]]

ProcIdle == [pc |-> "idle", snapshot |-> <<>>, matchIndex |-> 0,
             accessed |-> FALSE, logged |-> "none"]

\* lock.waitLock(30000) that returns without holding the lock
Acquire_NoLock ==
  \E p \in 1..MaxProcs :
    /\ procs[p].pc = "waitLock"
    /\ lock' = p
    /\ procs' = [procs EXCEPT ![p].pc = "inLock"]
    /\ UNCHANGED <<auxVars, tableVars, evalRow, logSheet>>

\* onChangeInstallable up to the call of processEvaluationRow_
Trigger ==
  \E p \in 1..MaxProcs :
    /\ procs[p].pc = "idle"
    /\ procs' = [procs EXCEPT ![p].pc =
                   IF TriggerGate(evalRow) THEN "waitLock" ELSE "done"]
    /\ UNCHANGED <<auxVars, tableVars, evalRow, logSheet, lock>>

\* lock.waitLock(30000) returns: the lock was free
Acquire ==
  \E p \in 1..MaxProcs :
    /\ procs[p].pc = "waitLock"
    /\ lock = 0
    /\ lock' = p
    /\ procs' = [procs EXCEPT ![p].pc = "inLock"]
    /\ UNCHANGED <<auxVars, tableVars, evalRow, logSheet>>

\* lock.waitLock(30000) throws: the lock was held for the whole wait
LockTimeout ==
  \E p \in 1..MaxProcs :
    /\ procs[p].pc = "waitLock"
    /\ lock # 0
    /\ procs' = [procs EXCEPT ![p].pc = "timedOut"]
    /\ UNCHANGED <<auxVars, tableVars, evalRow, logSheet, lock>>

\* the row is read again and gated; a failed gate returns through finally
ReadRow ==
  \E p \in 1..MaxProcs :
    /\ procs[p].pc = "inLock"
    /\ IF ProcessGate(evalRow)
       THEN /\ procs' = [procs EXCEPT ![p].pc = "readLog", ![p].accessed = TRUE,
                                      ![p].snapshot = BuildSnapshot(evalRow)]
            /\ UNCHANGED lock
       ELSE /\ procs' = [procs EXCEPT ![p].pc = "done", ![p].accessed = TRUE]
            /\ lock' = 0
    /\ UNCHANGED <<auxVars, tableVars, evalRow, logSheet>>

\* the log sheet is looked up: without it the run returns through finally;
\* otherwise logData is read and searched
ReadLog ==
  \E p \in 1..MaxProcs :
    /\ procs[p].pc = "readLog"
    /\ IF NoSheet("log")
       THEN /\ procs' = [procs EXCEPT ![p].pc = "done"]
            /\ lock' = 0
       ELSE /\ procs' = [procs EXCEPT ![p].pc = "write",
                          ![p].matchIndex = FindMatchRow(procs[p].snapshot, logSheet)]
            /\ UNCHANGED lock
    /\ UNCHANGED <<auxVars, tableVars, evalRow, logSheet>>

\* an exception inside try that leaves the function past the finally block
ThrowInLock_NoFinally ==
  \E p \in 1..MaxProcs :
    /\ procs[p].pc \in {"inLock", "readLog", "write"}
    /\ procs' = [procs EXCEPT ![p].pc = "failed"]
    /\ UNCHANGED <<auxVars, tableVars, evalRow, logSheet, lock>>

\* a call inside try throws (a service error): finally releases the lock
\* and the exception ends the execution
ThrowInLock ==
  \E p \in 1..MaxProcs :
    /\ procs[p].pc \in {"inLock", "readLog", "write"}
    /\ procs' = [procs EXCEPT ![p].pc = "failed"]
    /\ lock' = 0
    /\ UNCHANGED <<auxVars, tableVars, evalRow, logSheet>>

\* the log row is updated or inserted, the evaluator row reset unless
\* DEBUG_MODE, and the lock released
WriteLog ==
  \E p \in 1..MaxProcs :
    /\ procs[p].pc = "write"
    /\ LET m == procs[p].matchIndex
           row == BuildLogRow(procs[p].snapshot)
       IN  /\ logSheet' =
                IF m # 0
                THEN [i \in 1..(IF m > Len(logSheet) THEN m ELSE Len(logSheet)) |->
                        IF i = m THEN row
                        ELSE IF i <= Len(logSheet) THEN logSheet[i]
                        ELSE [f \in LogFields |-> EMPTY]]
                ELSE Append(logSheet, row)
           /\ procs' = [procs EXCEPT ![p].pc = "done",
                          ![p].logged = IF m # 0 THEN "updated" ELSE "inserted"]
    /\ evalRow' = IF DEBUG_MODE THEN evalRow ELSE ResetEvaluatorRow(evalRow)
    /\ lock' = 0
    /\ UNCHANGED <<auxVars, tableVars>>

EvalContent(ready, cmp, id, summary, item, price) ==
  [inputReady |-> Bool(ready), compareId |-> cmp, evaluationId |-> id,
   summaryUI |-> summary, item |-> item, brand |-> Str(<<"Amul">>),
   product |-> Str(<<"Amul Milk 1L">>), platform |-> Str(<<"BigBasket">>),
   normQty |-> Num(1), price |-> price]

\* what the evaluator row can hold: a complete evaluation; the same under
\* another spelling of the item; one whose price is not a number; another
\* item; and one row per gate that fails
EvalContents ==
  { EvalContent(TRUE, Num(1), Str(<<"ev-1">>), Str(<<"Buy">>), Str(<<"Milk">>), Num(50)),
    EvalContent(TRUE, Num(1), Str(<<"ev-1">>), Str(<<"Buy">>),
                Str(<<" ", "MILK", " ">>), Num(50)),
    EvalContent(TRUE, Num(1), Str(<<"ev-1">>), Str(<<"Buy">>), Str(<<"Milk">>),
                Str(<<"N/A">>)),
    EvalContent(TRUE, Num(1), Str(<<"ev-2">>), Str(<<"Buy">>), Str(<<"Tea">>), Num(50)),
    EvalContent(FALSE, Num(1), Str(<<"ev-1">>), Str(<<"Buy">>), Str(<<"Milk">>), Num(50)),
    EvalContent(TRUE, Num(2), Str(<<"ev-1">>), Str(<<"Buy">>), Str(<<"Milk">>), Num(50)),
    EvalContent(TRUE, Num(1), EMPTY, Str(<<"Buy">>), Str(<<"Milk">>), Num(50)),
    EvalContent(TRUE, Num(1), Str(<<"ev-1">>), Str(<<" ">>), Str(<<"Milk">>), Num(50)) }

\* a user, or the recalculation of the sheet, changes the evaluator row
ExtEditEval ==
  /\ \E c \in EvalContents : c # evalRow /\ evalRow' = c
  /\ UNCHANGED <<auxVars, tableVars, logSheet, procs, lock>>

\* the evaluator sheet with a row, no log row yet; the log sheet may be
\* missing from the spreadsheet
InitEval ==
  /\ TablesUnused
  /\ absent \in {{}, {<<"log", "*">>}}
  /\ mapping = <<>> /\ tstg = <<>> /\ runs = <<>> /\ job = JobIdle /\ audit = <<>>
  /\ evalRow \in EvalContents
  /\ logSheet = <<>>
  /\ procs = [p \in 1..MaxProcs |-> ProcIdle]
  /\ lock = 0

NextEval ==
  \/ Trigger
  \/ Acquire
  \/ LockTimeout
  \/ ReadRow
  \/ ReadLog
  \/ WriteLog
  \/ ThrowInLock
  \/ ExtEditEval

SpecEval == InitEval /\ [][NextEval]_vars

\* the executions alone, over an evaluator row that stays as it is: what
\* the row holds decides which way out an execution takes
NextEvalRuns ==
  \/ Trigger
  \/ Acquire
  \/ LockTimeout
  \/ ReadRow
  \/ ReadLog
  \/ WriteLog
  \/ ThrowInLock

\* an execution that holds the lock runs on: Apps Script executes the
\* statements of processEvaluationRow_ one after the other until it returns
SpecEvalFair ==
  /\ InitEval /\ [][NextEvalRuns]_vars
  /\ WF_vars(ReadRow) /\ WF_vars(ReadLog) /\ WF_vars(WriteLog)

(* ------------------ properties of the log updater (C13, C14) ----------- *)
InCritical(p) == procs[p].pc \in {"inLock", "readLog", "write"}

\* C13: at most one execution of processEvaluationRow_ is between acquiring
\* and releasing the script lock, and it is the holder of the lock; an
\* execution whose wait for the lock ran out has neither read nor written
\* the evaluator sheet or the log.
C13_OneInCriticalSection ==
  /\ Cardinality({p \in 1..MaxProcs : InCritical(p)}) <= 1
  /\ \A p \in 1..MaxProcs :
       /\ InCritical(p) => lock = p
       /\ procs[p].pc = "timedOut" =>
            ~procs[p].accessed /\ procs[p].logged = "none"

\* one execution is about to write the log while another has given up
C13_Witness ==
  \E p, q \in 1..MaxProcs :
    /\ procs[p].pc = "write"
    /\ procs[q].pc = "timedOut"

\* item, brand, product, platform, normalised quantity, price
KeyOf(r) ==
  <<Norm(r.item), Norm(r.brand), Norm(r.product), Norm(r.platform),
    r.normQty, r.price>>

\* C14: when all executions have ended, the log holds exactly one row with
\* the key of every content that passed the gates and was logged.
C14_OneLogRowPerKey ==
  (\A p \in 1..MaxProcs : procs[p].pc \in {"done", "timedOut", "failed"}) =>
    \A p \in 1..MaxProcs :
      procs[p].logged # "none" =>
        Cardinality({i \in 1..Len(logSheet) :
                       KeyOf(logSheet[i]) = KeyOf(procs[p].snapshot)}) = 1

(* ----------------- the lock on every exit path (C28) ------------------- *)
Ended(p) == procs[p].pc \in {"done", "timedOut", "failed"}

\* C28: an execution of processEvaluationRow_ that has acquired the script
\* lock releases it on every way out (a gate that fails, the log sheet
\* missing, the normal end, an exception inside try): an execution that has
\* ended never holds the lock, and a lock that is held is released
C28_LockAlwaysReleased ==
  /\ [](\A p \in 1..MaxProcs : Ended(p) => lock # p)
  /\ \A p \in 1..MaxProcs : (lock = p) ~> (lock # p /\ Ended(p))

\* an execution ended by an exception inside try, another one by the return
\* for the missing log sheet, and the lock is free
C28_Witness ==
  /\ lock = 0
  /\ NoSheet("log")
  /\ \E p, q \in 1..MaxProcs :
       /\ procs[p].pc = "failed"
       /\ procs[q].pc = "done" /\ procs[q].snapshot # <<>>

(* ----------------- the gates under the lock (C29) ---------------------- *)
\* Input_Ready_For_Comparison is true, Compare_ID is 1, Evaluation_ID is not
\* empty and Summary_UI is not blank
FourGates(row) ==
  /\ row.inputReady = Bool(TRUE)
  /\ row.compareId = Num(1)
  /\ row.evaluationId # EMPTY
  /\ \E k \in 1..Len(row.summaryUI.s) : row.summaryUI.s[k] # " "

\* C29: the log is inserted into or updated only by an execution that, under
\* the lock, read the evaluator row again and found the four gates passed on
\* that reading, and with the values of that reading; an execution whose
\* reading fails a gate ends there, and no execution that ends without
\* writing the log has changed the log or the evaluator row
C29_WritesOnlyAfterGates ==
  [][\A p \in 1..MaxProcs :
       /\ (procs[p].pc # "readLog" /\ procs'[p].pc = "readLog") =>
            /\ procs[p].pc = "inLock" /\ lock = p
            /\ FourGates(evalRow)
            /\ procs'[p].snapshot = BuildSnapshot(evalRow)
       /\ (procs[p].pc = "inLock" /\ procs'[p].pc # "inLock"
             /\ ~FourGates(evalRow)) =>
            /\ Ended(p)' /\ procs'[p].logged = "none"
            /\ UNCHANGED <<logSheet, evalRow>>
       /\ (procs[p].pc # "write" /\ procs'[p].pc = "write") =>
            procs[p].pc = "readLog" /\ procs'[p].snapshot = procs[p].snapshot
       /\ (procs'[p].logged # procs[p].logged \/ logSheet' # logSheet) =>
            \E q \in 1..MaxProcs :
              /\ procs[q].pc = "write" /\ lock = q
              /\ procs'[q].logged # "none"
              /\ \E i \in 1..Len(logSheet') :
                   logSheet'[i] = BuildLogRow(procs[q].snapshot)
       /\ (Ended(p)' /\ ~Ended(p) /\ procs'[p].logged = "none") =>
            UNCHANGED <<logSheet, evalRow>>]_vars

\* the trigger found the row ready, the reading under the lock did not: one
\* execution has ended without writing, another one has inserted a log row
C29_Witness ==
  \E p, q \in 1..MaxProcs :
    /\ procs[p].pc = "done" /\ procs[p].accessed /\ procs[p].snapshot = <<>>
    /\ procs[p].logged = "none"
    /\ procs[q].logged = "inserted"
    /\ Len(logSheet) = 1

(* ------------------------- mapping sheets ------------------------------ *)
\* Mapping_Item_Brand, and Mapping_Item_Brand_Product with its third id
MapLayouts == {"Item_Brand", "Item_Brand_Product"}

MapFields == {"itemId", "brandId", "productId", "firstTxn", "firstDate",
              "itemCanon", "brandCanon", "active", "archived", "notes"}
TstgFields == {"txnId", "txnDate", "itemId", "brandId", "itemCanon", "brandCanon"}

\* the ids a mapping row must carry: IDX of the cleanup script
RequiredIds(v) ==
  IF v = "Item_Brand" THEN {"itemId", "brandId"}
  ELSE {"itemId", "brandId", "productId"}

RECURSIVE RowsToDelete(_, _, _, _)
\* for (let i = 1; i < data.length; i++): the sheet row numbers (header is
\* row 1) of the rows with a falsy required id
RowsToDelete(v, data, i, acc) ==
  IF i > Len(data) THEN acc
  ELSE RowsToDelete(v, data, i + 1,
         IF \E f \in RequiredIds(v) : ~Truthy(data[i][f])
         THEN Append(acc, i + 1) ELSE acc)

\* mapSh.deleteRow(rowNum): the rows below move up by one
DeleteRow(sheet, rowNum) ==
  SubSeq(sheet, 1, rowNum - 2) \o SubSeq(sheet, rowNum, Len(sheet))

RECURSIVE DeleteRows_TopDown(_, _, _)
\* the deletions in ascending order of row number
DeleteRows_TopDown(sheet, rowsToDelete, i) ==
  IF i < 1 THEN sheet
  ELSE LET rowNum == rowsToDelete[Len(rowsToDelete) + 1 - i]
       IN  DeleteRows_TopDown(
             IF rowNum - 1 <= Len(sheet) THEN DeleteRow(sheet, rowNum) ELSE sheet,
             rowsToDelete, i - 1)

RECURSIVE DeleteRows(_, _, _)
\* for (let i = rowsToDelete.length - 1; i >= 0; i--); i counts from 1 here
DeleteRows(sheet, rowsToDelete, i) ==
  IF i < 1 THEN sheet
  ELSE DeleteRows(DeleteRow(sheet, rowsToDelete[i]), rowsToDelete, i - 1)

\* cleanupMapping_Item_Brand_InvalidRows and
\* cleanupMapping_Item_Brand_Product_InvalidRows, one run
CleanupMapping ==
  /\ variant \in MapLayouts
  /\ IF NoSheet("map") THEN Throw
     ELSE IF Len(mapping) < 1
     THEN /\ hist' = Push(hist, [op |-> "cleanupMapping", writes |-> 0])
          /\ UNCHANGED <<evalVars, absent, mapping, tstg, runs, job, audit, variant, stg, lk,
                         src, txn, ctrl, uuidNext, run, issued, firstId>>
     ELSE IF PreconditionFails({}, {<<"map", f>> : f \in RequiredIds(variant)})
     THEN Throw
     ELSE LET rowsToDelete == RowsToDelete(variant, mapping, 1, <<>>)
          IN  /\ mapping' = DeleteRows(mapping, rowsToDelete, Len(rowsToDelete))
              /\ hist' = Push(hist, [op |-> "cleanupMapping",
                                     writes |-> Len(rowsToDelete)])
              /\ UNCHANGED <<evalVars, absent, tstg, runs, job, audit, variant, stg, lk, src,
                             txn, ctrl, uuidNext, run, issued, firstId>>

\* itemId + '|' + brandId
PairKey(a, b) == StringOf(a).s \o <<"|">> \o StringOf(b).s

\* existingSet: the keys of the mapping rows that carry both ids
ExistingSet(mapData) ==
  {PairKey(mapData[i].itemId, mapData[i].brandId) :
     i \in {k \in 1..Len(mapData) :
              Truthy(mapData[k].itemId) /\ Truthy(mapData[k].brandId)}}

RECURSIVE DiscoveryLoop_LastSeen(_, _, _)
\* the discovery loop keeping, for a pair already seen, the later row
DiscoveryLoop_LastSeen(tsData, i, firstSeen) ==
  IF i > Len(tsData) THEN firstSeen
  ELSE LET r == tsData[i]
           key == PairKey(r.itemId, r.brandId)
           e == [key |-> key, itemId |-> r.itemId, brandId |-> r.brandId,
                 txnId |-> r.txnId, txnDate |-> OrElse(r.txnDate, EMPTY),
                 itemCanon |-> OrElse(r.itemCanon, EMPTY),
                 brandCanon |-> OrElse(r.brandCanon, EMPTY)]
       IN  IF ~Truthy(r.txnId) \/ ~Truthy(r.itemId) \/ ~Truthy(r.brandId)
           THEN DiscoveryLoop_LastSeen(tsData, i + 1, firstSeen)
           ELSE IF \E k \in 1..Len(firstSeen) : firstSeen[k].key = key
           THEN DiscoveryLoop_LastSeen(tsData, i + 1,
                  [k \in 1..Len(firstSeen) |->
                     IF firstSeen[k].key = key THEN e ELSE firstSeen[k]])
           ELSE DiscoveryLoop_LastSeen(tsData, i + 1, Append(firstSeen, e))

RECURSIVE DiscoveryLoop(_, _, _)
\* for (let i = 1; i < tsData.length; i++): firstSeenMap as the sequence of
\* its entries in insertion order
DiscoveryLoop(tsData, i, firstSeen) ==
  IF i > Len(tsData) THEN firstSeen
  ELSE LET r == tsData[i]
           key == PairKey(r.itemId, r.brandId)
       IN  IF ~Truthy(r.txnId) \/ ~Truthy(r.itemId) \/ ~Truthy(r.brandId)
           THEN DiscoveryLoop(tsData, i + 1, firstSeen)
           ELSE IF \E k \in 1..Len(firstSeen) : firstSeen[k].key = key
           THEN DiscoveryLoop(tsData, i + 1, firstSeen)
           ELSE DiscoveryLoop(tsData, i + 1,
                  Append(firstSeen,
                    [key |-> key, itemId |-> r.itemId, brandId |-> r.brandId,
                     txnId |-> r.txnId, txnDate |-> OrElse(r.txnDate, EMPTY),
                     itemCanon |-> OrElse(r.itemCanon, EMPTY),
                     brandCanon |-> OrElse(r.brandCanon, EMPTY)]))

\* newRow of the mapping sheet, its cells placed by header name (Created_At,
\* the time of the run, is left out)
NewMappingRow(e) ==
  [BlankRow(MapFields) EXCEPT
     !.itemId = Placed("map", "itemId", e.itemId),
     !.brandId = Placed("map", "brandId", e.brandId),
     !.firstTxn = Placed("map", "firstTxn", e.txnId),
     !.firstDate = Placed("map", "firstDate", e.txnDate),
     !.itemCanon = Placed("map", "itemCanon", e.itemCanon),
     !.brandCanon = Placed("map", "brandCanon", e.brandCanon),
     !.active = Placed("map", "active", Bool(TRUE)),
     !.archived = Placed("map", "archived", Bool(FALSE)),
     !.notes = Placed("map", "notes", Str(<<"Discovered from transaction">>))]

RECURSIVE BuildRows(_, _, _, _)
\* for (const [key, v] of firstSeenMap.entries())
BuildRows(firstSeen, k, existingSet, rowsToAppend) ==
  IF k > Len(firstSeen) THEN rowsToAppend
  ELSE IF firstSeen[k].key \in existingSet
  THEN BuildRows(firstSeen, k + 1, existingSet, rowsToAppend)
  ELSE BuildRows(firstSeen, k + 1, existingSet \cup {firstSeen[k].key},
                 Append(rowsToAppend, NewMappingRow(firstSeen[k])))

\* populateMapping_Item_Brand_FromTransactionStaging, one run
PopulateMapping ==
  /\ variant = "Item_Brand"
  /\ IF PreconditionFails({"tstg", "map"},
                          {<<"map", "itemId">>, <<"map", "brandId">>}
                            \cup {<<"tstg", f>> : f \in TstgFields})
     THEN Throw
     ELSE LET rowsToAppend ==
                BuildRows(DiscoveryLoop(tstg, 1, <<>>), 1, ExistingSet(mapping), <<>>)
          IN  /\ mapping' = IF Len(rowsToAppend) > 0
                            THEN AppendRows(mapping, rowsToAppend) ELSE mapping
              /\ hist' = Push(hist, [op |-> "populateMapping",
                                     writes |-> IF Len(rowsToAppend) > 0
                                                THEN 1 ELSE 0])
              /\ UNCHANGED <<evalVars, absent, tstg, runs, job, audit, variant, stg, lk, src,
                             txn, ctrl, uuidNext, run, issued, firstId>>

MapRow(item, brand, product, note) ==
  [BlankRow(MapFields) EXCEPT
     !.itemId = item, !.brandId = brand, !.productId = product, !.notes = note]

\* rows of a mapping sheet before any run: complete rows, rows with one id
\* blank and a row with no id at all
MapRows(v) ==
  LET p == IF v = "Item_Brand" THEN EMPTY ELSE Str(<<"product-1">>)
  IN  { MapRow(Str(<<"item-1">>), Str(<<"brand-1">>), p, Str(<<"a">>)),
        MapRow(EMPTY, Str(<<"brand-1">>), p, Str(<<"c">>)),
        MapRow(Str(<<"item-1">>), EMPTY, p, Str(<<"d">>)),
        MapRow(EMPTY, EMPTY, EMPTY, Str(<<"e">>)) }
      \cup IF v = "Item_Brand" THEN {}
           ELSE {MapRow(Str(<<"item-1">>), Str(<<"brand-1">>), EMPTY, Str(<<"f">>))}

TstgRow(t, item, brand) ==
  [txnId |-> t, txnDate |-> Str(<<"2024-01-01">>), itemId |-> item,
   brandId |-> brand, itemCanon |-> Str(<<"milk">>), brandCanon |-> EMPTY]

\* rows of Transaction_Staging: one pair twice, a second pair, a row without
\* transaction id and a row without brand
TstgRows ==
  { TstgRow(Str(<<"t1">>), Str(<<"item-1">>), Str(<<"brand-1">>)),
    TstgRow(Str(<<"t2">>), Str(<<"item-1">>), Str(<<"brand-1">>)),
    TstgRow(Str(<<"t3">>), Str(<<"item-2">>), Str(<<"brand-1">>)),
    TstgRow(EMPTY, Str(<<"item-3">>), Str(<<"brand-1">>)),
    TstgRow(Str(<<"t4">>), Str(<<"item-1">>), EMPTY) }

\* a transaction row reaches Transaction_Staging (outside the scripts)
ExtAddTstg ==
  /\ variant = "Item_Brand"
  /\ Len(tstg) < MaxTstg
  /\ \E r \in TstgRows : tstg' = Append(tstg, r)
  /\ hist' = Push(hist, [op |-> "edit", writes |-> 1])
  /\ UNCHANGED <<evalVars, absent, mapping, runs, job, audit, variant, stg, lk, src, txn,
                 ctrl, uuidNext, run, issued, firstId>>

\* the pairs of the complete rows of a mapping sheet, with repetitions
PairsOf(sheet) ==
  [i \in {k \in 1..Len(sheet) : sheet[k].itemId # EMPTY /\ sheet[k].brandId # EMPTY}
     |-> <<sheet[i].itemId, sheet[i].brandId>>]

\* no two complete rows carry the same pair
NoDuplicatePairs(sheet) ==
  \A i, j \in DOMAIN PairsOf(sheet) : i # j => PairsOf(sheet)[i] # PairsOf(sheet)[j]

InitMap ==
  /\ variant \in MapLayouts
  /\ mapping \in {s \in SeqsUpTo(MapRows(variant), MaxMap) : NoDuplicatePairs(s)}
  /\ tstg = <<>>
  /\ absent = {} /\ runs = <<>> /\ job = JobIdle /\ audit = <<>>
  /\ stg = <<>> /\ lk = <<>> /\ src = <<>> /\ txn = <<>> /\ ctrl = EMPTY
  /\ uuidNext = 1
  /\ run = RunIdle
  /\ hist = <<>>
  /\ issued = {}
  /\ firstId = <<>>
  /\ EvalUnused

NextMap ==
  \/ CleanupMapping
  \/ PopulateMapping
  \/ ExtAddTstg

SpecMap == InitMap /\ [][NextMap]_vars

(* ------------------- the checks at the head of a script ---------------- *)
\* IDX_LK and IDX_STG of a promotion script (Lookup_Items has no
\* Is_Archived column in its index map)
PromoChecks(v) ==
  {<<"lk", f>> : f \in {"idM", "idHuman", "name", "canon", "isActive",
                         "isStgPromoted", "notes"}
                        \cup (IF v = "items" THEN {} ELSE {"isArchived"})}
  \cup {<<"stg", f>> : f \in {"entered", "approved", "canon", "isApproved",
                               "isPromoted", "mappedId", "notes"}}

\* IDX_STG_CANON and IDX of an intake script
IntakeChecks == {<<"stg", "canon">>} \cup {<<"src", f>> : f \in SrcFields}

\* IDX of a machine-id backfill and of an orphan cleanup
LookupChecks == {<<"lk", "name">>, <<"lk", "idM">>}

\* a promotion run from its first line: the checks, then the loop
PromoStartChecked ==
  /\ variant \in Variants
  /\ run.pc = "idle"
  /\ IF PreconditionFails({"stg", "lk"}, PromoChecks(variant))
     THEN Throw ELSE PromoStart

\* an intake run from its first line
IntakeChecked ==
  /\ run.pc = "idle"
  /\ variant \in {"items", "brands"}
  /\ IF PreconditionFails({"src", "stg"}, IntakeChecks)
     THEN Throw ELSE IntakeRun

\* a machine-id backfill from its first line
BackfillChecked ==
  /\ run.pc = "idle"
  /\ variant \in {"items", "products"}
  /\ IF NoSheet("lk") \/ (Len(lk) >= 1 /\ PreconditionFails({}, LookupChecks))
     THEN Throw ELSE BackfillMachine

\* an orphan cleanup from its first line
CleanupChecked ==
  /\ run.pc = "idle"
  /\ variant \in {"items", "brands"}
  /\ IF NoSheet("lk") \/ (Len(lk) >= 1 /\ PreconditionFails({}, LookupChecks))
     THEN Throw ELSE CleanupOrphan

\* the columns a script resolves by header name, checked or not
ResolvedByName(op, v) ==
  CASE op = "promote" -> PromoChecks(v)
    [] op = "intake" ->
         IntakeChecks \cup (IF v = "items" THEN {}
                            ELSE {<<"stg", f>> : f \in StgFields})
    [] op \in {"backfillMachine", "cleanupOrphan"} -> LookupChecks
    [] op = "populateMapping" ->
         {<<"tstg", f>> : f \in TstgFields}
         \cup {<<"map", f>> : f \in MapFields \ {"productId"}}
    [] op = "cleanupMapping" -> {<<"map", f>> : f \in RequiredIds(v)}
    [] OTHER -> {}

\* the sheets a script opens
SheetsOf(op) ==
  CASE op = "promote" -> {"stg", "lk"}
    [] op = "intake" -> {"src", "stg"}
    [] op \in {"backfillMachine", "cleanupOrphan"} -> {"lk"}
    [] op = "populateMapping" -> {"tstg", "map"}
    [] op = "cleanupMapping" -> {"map"}
    [] OTHER -> {}

\* what a user can take away: a sheet that a script of this spreadsheet
\* opens, or a column that it resolves
Removable(v) ==
  UNION {{<<s, "*">> : s \in SheetsOf(op)} \cup ResolvedByName(op, v) :
           op \in IF v \in MapLayouts
                  THEN {"populateMapping", "cleanupMapping"}
                  ELSE {"promote", "intake", "backfillMachine", "cleanupOrphan"}}

\* the rows of sheet name once x is gone: none without the sheet, and no
\* values in a column that is gone
Without(name, rows, x) ==
  IF x[1] # name THEN rows
  ELSE IF x[2] = "*" THEN <<>>
  ELSE Trim([i \in 1..Len(rows) |-> [rows[i] EXCEPT ![x[2]] = EMPTY]])

\* a user deletes a sheet or a column (outside the scripts)
ExtRemove ==
  /\ run.pc = "idle"
  /\ absent = {}
  /\ \E x \in Removable(variant) :
       /\ absent' = {x}
       /\ stg' = Without("stg", stg, x)
       /\ lk' = Without("lk", lk, x)
       /\ src' = Without("src", src, x)
       /\ mapping' = Without("map", mapping, x)
       /\ tstg' = Without("tstg", tstg, x)
  /\ UNCHANGED <<evalVars, runs, job, audit, variant, txn, ctrl, uuidNext, run, hist, issued,
                 firstId>>

\* a master sheet with its staging sheet and one unresolved transaction, or
\* a mapping sheet with two transactions
InitPre ==
  /\ \/ /\ variant \in {"items", "brands"}
        /\ stg = <<StgRow(Str(<<"coke">>), EMPTY, TRUE, EMPTY)>>
        /\ lk \in {<<ManualLkRow(Str(<<"Pepsi">>), EMPTY)>>,
                    <<ManualLkRow(EMPTY, Uuid(0))>>}
        /\ src = <<SrcRow(Str(<<"t1">>), EMPTY, Str(<<"milk 1L">>), Str(<<"milk">>))>>
        /\ mapping = <<>> /\ tstg = <<>>
     \/ /\ variant = "Item_Brand"
        /\ stg = <<>> /\ lk = <<>> /\ src = <<>>
        /\ mapping = <<MapRow(EMPTY, Str(<<"brand-1">>), EMPTY, Str(<<"c">>)),
                       MapRow(Str(<<"item-1">>), Str(<<"brand-1">>), EMPTY, Str(<<"a">>))>>
        /\ tstg = <<TstgRow(Str(<<"t3">>), Str(<<"item-2">>), Str(<<"brand-1">>))>>
  /\ txn = <<>> /\ ctrl = EMPTY
  /\ uuidNext = 1
  /\ run = RunIdle
  /\ hist = <<>>
  /\ issued = IdsIn(lk)
  /\ firstId = FirstIds(<<>>, lk)
  /\ absent = {} /\ runs = <<>> /\ job = JobIdle /\ audit = <<>>
  /\ EvalUnused

NextPre ==
  \/ ExtRemove
  \/ PromoStartChecked
  \/ PromoAppend
  \/ PromoWriteMappedId
  \/ PromoWriteIsPromoted
  \/ PromoWriteNotes
  \/ PromoFinish
  \/ IntakeChecked
  \/ BackfillChecked
  \/ CleanupChecked
  \/ PopulateMapping
  \/ CleanupMapping

SpecPre == InitPre /\ [][NextPre]_vars

(* ----------------------- failed runs (C15) ----------------------------- *)
\* the script that takes this step: a promotion run between its first line
\* and its return, or the script whose run this step completes
StepOp ==
  IF run.pc # "idle" THEN "promote"
  ELSE IF hist' = <<>> THEN "none" ELSE hist'[Len(hist')].op

\* C15: a run of a promotion, intake, backfill or cleanup script that finds
\* one of its sheets, or one of the columns it resolves by header name,
\* missing changes no master, staging, transaction or mapping table.
C15_FailedRunWritesNothing ==
  [][((\E s \in SheetsOf(StepOp) : NoSheet(s))
        \/ (\E c \in ResolvedByName(StepOp, variant) : NoColumn(c[1], c[2])))
       => UNCHANGED <<stg, lk, src, txn, mapping, tstg>>]_vars

(* ------------- intake with a staging column missing (C27) -------------- *)
\* C27: the intake resolves the staging columns it writes by header name,
\* and a run that finds one of them missing from the staging header fails
\* before appending: no intake run gets to its append, and the staging
\* sheet gets no row, while a staging column is missing
C27_IntakeFailsOnMissingColumn ==
  [][(\E f \in StgFields : NoColumn("stg", f)) =>
       /\ StepOp # "intake"
       /\ run.pc = "idle" => Len(stg') <= Len(stg)]_vars

(* ---------------- properties of the mapping sheets (C16, C17) ---------- *)
\* the rows of a mapping sheet with every required id non-blank, in order
ValidRows(v, sheet) ==
  SelectSeq(sheet, LAMBDA r : \A f \in RequiredIds(v) : r[f] # EMPTY)

\* C16: a run of the mapping cleanup (two-id or three-id) leaves exactly the
\* rows that had every required id non-blank before the run, in their
\* original order, wherever the invalid rows were.
C16_CleanupKeepsValidRows ==
  [][(hist' # <<>> /\ hist'[Len(hist')].op = "cleanupMapping")
       => mapping' = ValidRows(variant, mapping)]_vars

\* a run deleted two rows and kept a valid one
C16_Witness ==
  /\ hist # <<>>
  /\ hist[Len(hist)] = [op |-> "cleanupMapping", writes |-> 2]
  /\ Len(mapping) = 1

\* the transaction rows that carry a transaction id and both ids
Carriers == {i \in 1..Len(tstg) : /\ tstg[i].txnId # EMPTY
                                  /\ tstg[i].itemId # EMPTY
                                  /\ tstg[i].brandId # EMPTY}
CarriersOf(a, b) == {i \in Carriers : tstg[i].itemId = a /\ tstg[i].brandId = b}
FirstCarrier(a, b) ==
  CHOOSE i \in CarriersOf(a, b) : \A m \in CarriersOf(a, b) : i <= m

\* C17: after a run of the mapping population, every pair carried by a
\* transaction row with a transaction id has exactly one mapping row, and a
\* row the run created records the transaction id of the first transaction
\* row, in table order, that carries its pair.
C17_OneRowPerPair ==
  [][(hist' # <<>> /\ hist'[Len(hist')].op = "populateMapping")
       => /\ \A i \in Carriers :
               Cardinality({j \in 1..Len(mapping') :
                              /\ mapping'[j].itemId = tstg[i].itemId
                              /\ mapping'[j].brandId = tstg[i].brandId}) = 1
          /\ \A j \in (Len(mapping) + 1)..Len(mapping') :
               /\ CarriersOf(mapping'[j].itemId, mapping'[j].brandId) # {}
               /\ mapping'[j].firstTxn =
                    tstg[FirstCarrier(mapping'[j].itemId, mapping'[j].brandId)].txnId]_vars

\* a pair carried by two transaction rows got its row, with the transaction
\* id of the first of them
C17_Witness ==
  /\ hist # <<>>
  /\ hist[Len(hist)] = [op |-> "populateMapping", writes |-> 1]
  /\ Len(tstg) = 2
  /\ CarriersOf(tstg[1].itemId, tstg[1].brandId) = {1, 2}
  /\ tstg[1].txnId # tstg[2].txnId
  /\ \E j \in 1..Len(mapping) :
       /\ mapping[j].itemId = tstg[1].itemId
       /\ mapping[j].brandId = tstg[1].brandId
       /\ mapping[j].firstTxn = tstg[1].txnId

(* ------------------- which rows a promotion run takes ------------------ *)
\* the staging rows a run has write-backs for
TakenRows == {run.stagingUpdates[k].row : k \in 1..Len(run.stagingUpdates)}

\* C21: a promotion run promotes a staging row exactly when, in the snapshot
\* it read, Is_Approved is the boolean true, Is_Lookup_Promoted is not the
\* boolean true and the approved or the entered name is non-empty; a promoted
\* row ends flagged and mapped to a master row of the run; every other row
\* keeps all its cells and is counted as skipped; no run changes Is_Approved
C21_PromotedIffGatesPass ==
  /\ run.pc # "idle" =>
       \A i \in 1..Len(run.stgData) :
         /\ i <= Len(stg)
         /\ stg[i].isApproved = run.stgData[i].isApproved
  /\ run.pc = "end" =>
       /\ \A i \in 1..Len(run.stgData) :
            LET r0 == run.stgData[i]
            IN  /\ (i \in TakenRows) <=>
                     /\ r0.isApproved = Bool(TRUE)
                     /\ r0.isPromoted # Bool(TRUE)
                     /\ (r0.approved # EMPTY \/ r0.entered # EMPTY)
                /\ i \in TakenRows =>
                     /\ stg[i].isPromoted = Bool(TRUE)
                     /\ stg[i].mappedId # EMPTY
                     /\ \E j \in (run.lkLen + 1)..Len(lk) :
                          lk[j].idM = stg[i].mappedId
                /\ i \notin TakenRows => stg[i] = r0
       /\ run.skipped = Cardinality((1..Len(run.stgData)) \ TakenRows)

\* a finished run that promoted one row and skipped an approved row with no
\* name and a row promoted before
C21_Witness ==
  /\ run.pc = "end"
  /\ TakenRows # {}
  /\ run.skipped > 0
  /\ \E i \in 1..Len(run.stgData) :
       /\ i \notin TakenRows
       /\ run.stgData[i].isApproved = Bool(TRUE)
       /\ run.stgData[i].approved = EMPTY /\ run.stgData[i].entered = EMPTY

(* ------------------- promotion runs side by side ----------------------- *)
\* run p up to the end of the promotion loop: both sheets read, nothing
\* written yet
RaceStart(p) ==
  /\ runs[p].pc = "idle"
  /\ LET acc == PromoLoop(variant, stg, 1,
                  [lookupAppendRows |-> <<>>, stagingUpdates |-> <<>>,
                   next |-> uuidNext, skipped |-> 0])
     IN  /\ WithinCap(acc.next)
         /\ runs' = [runs EXCEPT ![p] =
                       [pc |-> "scanned", stgData |-> stg, lkLen |-> Len(lk),
                        lookupAppendRows |-> acc.lookupAppendRows,
                        stagingUpdates |-> acc.stagingUpdates, u |-> 0,
                        cell |-> "none", lastRow |-> 0]]
         /\ uuidNext' = acc.next
  /\ UNCHANGED <<evalVars, absent, mapping, tstg, job, audit, variant, stg, lk, src, txn, ctrl,
                 run, hist, issued, firstId>>

\* sheet.getRange(lastRow + 1, 1, n, w).setValues(rows) with lastRow read
\* earlier: the rows go to the sheet rows lastRow + 1 .. lastRow + n and
\* replace what is there by now
WriteAt(sheet, lastRow, rows) ==
  LET n == Len(rows)
      padded == sheet \o [k \in 1..(lastRow + n - Len(sheet)) |->
                            BlankRow(DOMAIN rows[1])]
  IN  Trim([j \in 1..Len(padded) |->
              IF j > lastRow /\ j <= lastRow + n THEN rows[j - lastRow]
              ELSE padded[j]])

\* WRITE LOOKUP of run p, first call: lkSh.getLastRow(), made only when the
\* run has rows to append
RaceLastRow(p) ==
  /\ runs[p].pc = "scanned"
  /\ runs' = [runs EXCEPT ![p] =
                IF Len(runs[p].lookupAppendRows) > 0
                THEN [runs[p] EXCEPT !.pc = "append", !.lastRow = Len(lk)]
                ELSE IF Len(runs[p].stagingUpdates) > 0
                THEN [runs[p] EXCEPT !.pc = "writeback", !.u = 1, !.cell = "mappedId"]
                ELSE [runs[p] EXCEPT !.pc = "end"]]
  /\ UNCHANGED <<evalVars, absent, mapping, tstg, job, audit, variant, stg, lk, src, txn,
                 ctrl, uuidNext, run, hist, issued, firstId>>

\* the append placed below the last row that the run saw when it read the
\* master sheet at its start
RaceAppend_Stale(p) ==
  /\ runs[p].pc = "append"
  /\ lk' = WriteAt(lk, runs[p].lkLen, runs[p].lookupAppendRows)
  /\ runs' = [runs EXCEPT ![p] =
                IF Len(runs[p].stagingUpdates) > 0
                THEN [runs[p] EXCEPT !.pc = "writeback", !.u = 1, !.cell = "mappedId"]
                ELSE [runs[p] EXCEPT !.pc = "end"]]
  /\ UNCHANGED <<evalVars, absent, mapping, tstg, job, audit, variant, stg, src, txn, ctrl,
                 uuidNext, run, hist, issued, firstId>>

\* WRITE LOOKUP of run p, second call: setValues of its rows on the range
\* below the last row that getLastRow() returned
RaceAppend(p) ==
  /\ runs[p].pc = "append"
  /\ lk' = WriteAt(lk, runs[p].lastRow, runs[p].lookupAppendRows)
  /\ runs' = [runs EXCEPT ![p] =
                IF Len(runs[p].stagingUpdates) > 0
                THEN [runs[p] EXCEPT !.pc = "writeback", !.u = 1, !.cell = "mappedId"]
                ELSE [runs[p] EXCEPT !.pc = "end"]]
  /\ UNCHANGED <<evalVars, absent, mapping, tstg, job, audit, variant, stg, src, txn, ctrl,
                 uuidNext, run, hist, issued, firstId>>

\* WRITE BACK TO STAGING of run p: its next setValue call
RaceWriteBack(p) ==
  /\ runs[p].pc = "writeback"
  /\ LET r == runs[p]
         upd == r.stagingUpdates[r.u]
     IN  /\ stg' = SetCell(stg, upd.row, StgFields, r.cell,
                           CASE r.cell = "mappedId" -> upd.mappedId
                             [] r.cell = "isPromoted" -> Bool(TRUE)
                             [] r.cell = "notes" -> upd.note)
         /\ runs' = [runs EXCEPT ![p] =
                       CASE r.cell = "mappedId" -> [r EXCEPT !.cell = "isPromoted"]
                         [] r.cell = "isPromoted" -> [r EXCEPT !.cell = "notes"]
                         [] r.cell = "notes" ->
                              IF r.u < Len(r.stagingUpdates)
                              THEN [r EXCEPT !.u = r.u + 1, !.cell = "mappedId"]
                              ELSE [r EXCEPT !.pc = "end", !.cell = "none"]]
  /\ UNCHANGED <<evalVars, absent, mapping, tstg, job, audit, variant, lk, src, txn, ctrl,
                 uuidNext, run, hist, issued, firstId>>

\* the staging sheets of the initial states: one approved row, an approved
\* row below a row that is not approved, two approved rows
RaceStgSheets ==
  LET coke == StgRow(Str(<<"coke">>), EMPTY, TRUE, EMPTY)
      fanta == StgRow(Str(<<"fanta">>), EMPTY, FALSE, EMPTY)
  IN  {<<coke>>, <<fanta, coke>>, <<coke, coke>>}

\* one staging sheet, MaxRuns executions of its promotion script started by
\* hand or by trigger, none of them begun
InitRace ==
  /\ variant \in {"brands", "products"}
  /\ stg \in RaceStgSheets
  /\ lk = <<ManualLkRow(Str(<<"Pepsi">>), Uuid(0))>>
  /\ runs = [p \in 1..MaxRuns |-> RunIdle]
  /\ src = <<>> /\ txn = <<>> /\ ctrl = EMPTY
  /\ uuidNext = 1
  /\ run = RunIdle
  /\ hist = <<>>
  /\ issued = {}
  /\ firstId = <<>>
  /\ absent = {} /\ mapping = <<>> /\ tstg = <<>>
  /\ job = JobIdle /\ audit = <<>>
  /\ EvalUnused

NextRace ==
  \E p \in 1..MaxRuns :
    \/ RaceStart(p)
    \/ RaceLastRow(p)
    \/ RaceAppend(p)
    \/ RaceWriteBack(p)

SpecRace == InitRace /\ [][NextRace]_vars

(* --------------------- promotion without a lock (C20) ------------------ *)
\* runs p and q have both appended, each with an update for staging row i
BothPromoted(p, q, i) ==
  /\ p # q
  /\ runs[p].pc \in {"writeback", "end"} /\ runs[q].pc \in {"writeback", "end"}
  /\ \E k \in 1..Len(runs[p].stagingUpdates) : runs[p].stagingUpdates[k].row = i
  /\ \E m \in 1..Len(runs[q].stagingUpdates) : runs[q].stagingUpdates[m].row = i

\* the runs that read staging row i as approved and unpromoted
Promoters(i) ==
  {p \in 1..MaxRuns :
     \E k \in 1..Len(runs[p].stagingUpdates) : runs[p].stagingUpdates[k].row = i}

\* the id under which run p promotes staging row i
IdBy(p, i) ==
  LET k == CHOOSE k \in 1..Len(runs[p].stagingUpdates) :
             runs[p].stagingUpdates[k].row = i
  IN  runs[p].stagingUpdates[k].mappedId

\* the sheet row, counted in data rows, to which run p wrote its master row
\* for staging row i
RowPos(p, i) ==
  runs[p].lastRow + (CHOOSE k \in 1..Len(runs[p].stagingUpdates) :
                       runs[p].stagingUpdates[k].row = i)

\* another run has written its rows over a range that holds that sheet row
Covered(p, i) ==
  \E s \in (1..MaxRuns) \ {p} :
    /\ runs[s].pc \in {"writeback", "end"}
    /\ RowPos(p, i) > runs[s].lastRow
    /\ RowPos(p, i) <= runs[s].lastRow + Len(runs[s].lookupAppendRows)

\* C20 as stated: two runs that both read a staging row as approved and
\* unpromoted each append their own master row for it, under different ids,
\* and once every run that read the row so has finished, the row's mapped id
\* is the id of exactly one of their master rows.
C20_BothRunsAppend ==
  \A p, q \in 1..MaxRuns : \A i \in 1..Len(stg) :
    BothPromoted(p, q, i) =>
      /\ IdBy(p, i) # IdBy(q, i)
      /\ Cardinality({j \in 1..Len(lk) : lk[j].idM = IdBy(p, i)}) = 1
      /\ Cardinality({j \in 1..Len(lk) : lk[j].idM = IdBy(q, i)}) = 1
      /\ (\A r \in Promoters(i) : runs[r].pc = "end") =>
           /\ stg[i].isPromoted = Bool(TRUE)
           /\ \E r \in Promoters(i) :
                /\ stg[i].mappedId = IdBy(r, i)
                /\ \A s \in Promoters(i) \ {r} : stg[i].mappedId # IdBy(s, i)

\* C20, amended: two runs that both read a staging row as approved and
\* unpromoted each write their own master row for it, under different ids,
\* below the last row they found; the master row of a run is in the table,
\* once, at the sheet row it was written to, unless another run has written
\* over that sheet row, and it is never there twice; once every run that
\* read the row so has finished, the row is flagged and its mapped id is the
\* id that exactly one of these runs drew
C20_BothRunsWrite ==
  \A p, q \in 1..MaxRuns : \A i \in 1..Len(stg) :
    BothPromoted(p, q, i) =>
      /\ IdBy(p, i) # IdBy(q, i)
      /\ \A r \in {p, q} :
           /\ Cardinality({j \in 1..Len(lk) : lk[j].idM = IdBy(r, i)}) <= 1
           /\ ~Covered(r, i) =>
                /\ RowPos(r, i) <= Len(lk)
                /\ lk[RowPos(r, i)].idM = IdBy(r, i)
      /\ (\A r \in Promoters(i) : runs[r].pc = "end") =>
           /\ stg[i].isPromoted = Bool(TRUE)
           /\ \E r \in Promoters(i) :
                /\ stg[i].mappedId = IdBy(r, i)
                /\ \A s \in Promoters(i) \ {r} : stg[i].mappedId # IdBy(s, i)

\* both runs have finished: the run that started second was overtaken, and
\* the row is left with the id of the run that started first
C20_Witness ==
  /\ BothPromoted(1, 2, 1)
  /\ runs[1].pc = "end" /\ runs[2].pc = "end"
  /\ stg[1].mappedId = IdBy(1, 1)
  /\ \E j \in 1..Len(lk) : lk[j].idM = IdBy(2, 1) /\ lk[j].isStgPromoted = Bool(TRUE)

(* ------------- the strict cleanup, call by call (Script_Logs) ---------- *)
\* range.setValues(output) on a sheet that may have grown since the range
\* was read: the rows of the range are overwritten, the rows below are kept
SetRange(sheet, output) ==
  Trim(output \o SubSeq(sheet, Len(output) + 1, Len(sheet)))

\* the columns of Transaction_Raw from left to right
TxnCols == <<"trxDate", "item", "qtyVal", "qtyUnit", "price", "txnId", "other">>

\* JSON.stringify of a cell: a text in double quotes, a number as its digits
JsonCell(c) == IF c.ty = "string" THEN <<"\"">> \o c.s \o <<"\"">> ELSE c.s

RECURSIVE JsonCells(_, _)
JsonCells(r, k) ==
  IF k > Len(TxnCols) THEN <<>>
  ELSE (IF k = 1 THEN <<>> ELSE <<",">>) \o JsonCell(r[TxnCols[k]])
       \o JsonCells(r, k + 1)

\* JSON.stringify(r) of a row of getValues()
JsonRow(r) == <<"[">> \o JsonCells(r, 1) \o <<"]">>

\* the row ETI_log_ appends to Script_Logs (without its timestamp)
LogEntry(exec, level, rowNumber, action, details) ==
  [executionId |-> exec, level |-> level, rowNumber |-> rowNumber,
   action |-> action, details |-> details]

\* details of the DELETE_INVALID_TXN entry of a row
DeleteDetails(r) ==
  <<"Invalid partial transaction deleted. Snapshot=">> \o JsonRow(r)

\* the head of cleanupInvalidTransactions_TransactionRaw (strict): the START
\* entry, the read of the data range, the EXIT entry of an empty sheet
StrictStart ==
  /\ variant = "txn"
  /\ job.pc = "idle"
  /\ WithinCap(uuidNext + 1)
  /\ uuidNext' = uuidNext + 1
  /\ LET exec == Uuid(uuidNext)
         start == LogEntry(exec, "INFO", EMPTY, "START", <<"Execution started">>)
     IN  IF Len(txn) < 1
         THEN /\ audit' = audit \o <<start, LogEntry(exec, "WARN", EMPTY, "EXIT",
                                                      <<"No data rows found">>)>>
              /\ UNCHANGED job
         ELSE /\ audit' = Append(audit, start)
              /\ job' = [pc |-> "loop", exec |-> exec, data |-> txn,
                         output |-> txn, i |-> 1, deleted |-> 0]
  /\ UNCHANGED <<evalVars, absent, mapping, tstg, runs, variant, stg, lk, src,
                 txn, ctrl, run, hist, issued, firstId>>

\* one pass of the loop whose entry carries the row as it is after the clear
StrictRow_LogCleared ==
  /\ job.pc = "loop"
  /\ job.i <= Len(job.output)
  /\ LET r == job.output[job.i]
     IN  IF PartiallyFilled(r)
         THEN /\ job' = [job EXCEPT !.output[job.i] = BlankRow(TxnFields),
                                    !.i = @ + 1, !.deleted = @ + 1]
              /\ audit' = Append(audit,
                            LogEntry(job.exec, "WARN", Num(job.i + 1),
                                     "DELETE_INVALID_TXN",
                                     DeleteDetails(BlankRow(TxnFields))))
         ELSE /\ job' = [job EXCEPT !.i = @ + 1]
              /\ UNCHANGED audit
  /\ UNCHANGED <<evalVars, absent, mapping, tstg, runs, variant, stg, lk, src,
                 txn, ctrl, uuidNext, run, hist, issued, firstId>>

\* one pass of the loop: a partial row is serialized, cleared in output and
\* logged by ETI_log_ (rowNum = i + 1 counts the header row)
StrictRow ==
  /\ job.pc = "loop"
  /\ job.i <= Len(job.output)
  /\ LET r == job.output[job.i]
     IN  IF PartiallyFilled(r)
         THEN /\ job' = [job EXCEPT !.output[job.i] = BlankRow(TxnFields),
                                    !.i = @ + 1, !.deleted = @ + 1]
              /\ audit' = Append(audit,
                            LogEntry(job.exec, "WARN", Num(job.i + 1),
                                     "DELETE_INVALID_TXN", DeleteDetails(r)))
         ELSE /\ job' = [job EXCEPT !.i = @ + 1]
              /\ UNCHANGED audit
  /\ UNCHANGED <<evalVars, absent, mapping, tstg, runs, variant, stg, lk, src,
                 txn, ctrl, uuidNext, run, hist, issued, firstId>>

\* range.setValues(output) after the loop
StrictWrite ==
  /\ job.pc = "loop"
  /\ job.i > Len(job.output)
  /\ txn' = SetRange(txn, job.output)
  /\ job' = [job EXCEPT !.pc = "written"]
  /\ hist' = Push(hist, [op |-> "cleanupTxnStrict", writes |-> 1])
  /\ UNCHANGED <<evalVars, absent, mapping, tstg, runs, audit, variant, stg, lk,
                 src, ctrl, uuidNext, run, issued, firstId>>

\* the SUMMARY entry (its duration is left out), the END entry, the return
StrictSummary ==
  /\ job.pc = "written"
  /\ audit' = audit \o
       <<LogEntry(job.exec, "INFO", EMPTY, "SUMMARY",
                  <<"Scanned=">> \o ToDigits(Len(job.data))
                  \o <<", Deleted=">> \o ToDigits(job.deleted)),
         LogEntry(job.exec, "INFO", EMPTY, "END",
                  <<"Execution completed successfully">>)>>
  /\ job' = JobIdle
  /\ UNCHANGED <<evalVars, absent, mapping, tstg, runs, variant, stg, lk, src,
                 txn, ctrl, uuidNext, run, hist, issued, firstId>>

\* the execution is terminated (time limit, cancelled) between two calls
StrictAbandon ==
  /\ job.pc \in {"loop", "written"}
  /\ job' = JobIdle
  /\ UNCHANGED <<evalVars, absent, mapping, tstg, runs, audit, variant, stg, lk,
                 src, txn, ctrl, uuidNext, run, hist, issued, firstId>>

\* a user empties the price cell of a transaction row while no run is on
ExtClearPrice ==
  /\ job.pc = "idle"
  /\ \E i \in 1..Len(txn) :
       /\ txn[i].price # EMPTY
       /\ txn' = Trim([txn EXCEPT ![i].price = EMPTY])
  /\ hist' = Push(hist, [op |-> "edit", writes |-> 1])
  /\ UNCHANGED <<evalVars, absent, mapping, tstg, runs, job, audit, variant, stg,
                 lk, src, ctrl, uuidNext, run, issued, firstId>>

\* rows of Transaction_Raw: only the date entered, with an identifier; all
\* but the price entered, with a quantity of 0; a complete row; an
\* identifier left in an otherwise empty row
AuditTxnRows ==
  { TxnRow(Str(<<"2026-01-05">>), EMPTY, EMPTY, EMPTY, EMPTY, OldId(1)),
    TxnRow(Str(<<"2026-01-05">>), Str(<<"milk">>), Num(0), Str(<<"l">>), EMPTY, EMPTY),
    TxnRow(Str(<<"2026-01-05">>), Str(<<"milk">>), Num(2), Str(<<"l">>), Num(5), OldId(2)),
    TxnRow(EMPTY, EMPTY, EMPTY, EMPTY, EMPTY, OldId(1)) }

InitAudit ==
  /\ variant = "txn"
  /\ txn \in SeqsUpTo(AuditTxnRows, MaxAuditRows) \ {<<>>}
  /\ stg = <<>> /\ lk = <<>> /\ src = <<>> /\ ctrl = EMPTY
  /\ uuidNext = 1
  /\ run = RunIdle
  /\ hist = <<>> /\ issued = {} /\ firstId = <<>>
  /\ EvalUnused /\ AuxUnused

NextAudit ==
  \/ StrictStart
  \/ StrictRow
  \/ StrictWrite
  \/ StrictSummary
  \/ StrictAbandon
  \/ ExtClearPrice

SpecAudit == InitAudit /\ [][NextAudit]_vars

(* ------------------ the snapshot before the clear (C25) ---------------- *)
\* the DELETE_INVALID_TXN entries of Script_Logs for sheet row n that carry
\* the serialized row r
SnapshotsOf(n, r) ==
  {k \in 1..Len(audit) :
     /\ audit[k].action = "DELETE_INVALID_TXN"
     /\ audit[k].rowNumber = Num(n)
     /\ audit[k].details = DeleteDetails(r)}

\* C25: Script_Logs only grows, and whenever the strict cleanup writes its
\* output to Transaction_Raw, every row that the write empties has, already
\* in the log, exactly one entry of this run for its row number, carrying the
\* serialized content the row has in the sheet before the write
C25_SnapshotLoggedBeforeClear ==
  [][/\ Len(audit') >= Len(audit)
     /\ SubSeq(audit', 1, Len(audit)) = audit
     /\ \A i \in 1..Len(txn) :
          (~IsBlank(txn[i]) /\ IsBlank(TxnRowAt(txn', i))) =>
            /\ job.pc = "loop" /\ job'.pc = "written"
            /\ Cardinality({k \in SnapshotsOf(i + 1, txn[i]) :
                              audit[k].executionId = job.exec}) = 1
            /\ Cardinality({k \in 1..Len(audit) :
                              /\ audit[k].executionId = job.exec
                              /\ audit[k].rowNumber = Num(i + 1)}) = 1]_vars

\* a run has written its output: a partial row of the snapshot is empty in
\* the sheet and its serialized content is in the log
C25_Witness ==
  /\ job.pc = "written"
  /\ \E i \in 1..Len(job.data) :
       /\ KeyCellsFilled(job.data[i]) \in 1..4
       /\ IsBlank(TxnRowAt(txn, i))
       /\ SnapshotsOf(i + 1, job.data[i]) # {}

(* ---------------- generateItemID_H, call by call ------------------------ *)
\* generateItemID_H up to the loop: the counter and the data range are read
GenStart ==
  /\ variant = "Item_ID_H"
  /\ job.pc = "idle"
  /\ IF Len(lk) < 1
     THEN /\ hist' = Push(hist, [op |-> "generateItemID_H", writes |-> 0])
          /\ UNCHANGED job
     ELSE /\ job' = [pc |-> "loop", data |-> lk, i |-> 1,
                     counter |-> CounterStart(ctrl), wrote |-> FALSE]
          /\ UNCHANGED hist
  /\ UNCHANGED <<evalVars, absent, mapping, tstg, runs, audit, variant, stg, lk,
                 src, txn, ctrl, uuidNext, run, issued, firstId>>

\* one pass of the loop: the setValue of a qualifying row's Item_ID_H cell
GenRow ==
  /\ job.pc = "loop"
  /\ job.i <= Len(job.data)
  /\ IF CounterQualifies(job.data[job.i])
     THEN /\ lk' = SetCell(lk, job.i, LkFields, "Item_ID_H",
                           HumanId(job.counter + 1))
          /\ issued' = issued \cup {HumanId(job.counter + 1)}
          /\ job' = [job EXCEPT !.i = @ + 1, !.counter = @ + 1, !.wrote = TRUE]
     ELSE /\ job' = [job EXCEPT !.i = @ + 1]
          /\ UNCHANGED <<lk, issued>>
  /\ UNCHANGED <<evalVars, absent, mapping, tstg, runs, audit, variant, stg, src,
                 txn, ctrl, uuidNext, run, hist, firstId>>

\* after the loop: if (wrote) the counter cell is set, and the return
GenCounter ==
  /\ job.pc = "loop"
  /\ job.i > Len(job.data)
  /\ ctrl' = IF job.wrote THEN Num(job.counter) ELSE ctrl
  /\ hist' = Push(hist, [op |-> "generateItemID_H",
                         writes |-> IF job.wrote THEN 1 ELSE 0])
  /\ job' = JobIdle
  /\ UNCHANGED <<evalVars, absent, mapping, tstg, runs, audit, variant, stg, lk,
                 src, txn, uuidNext, run, issued, firstId>>

\* the execution is terminated (time limit, cancelled) between two calls
GenAbandon ==
  /\ job.pc = "loop"
  /\ job' = JobIdle
  /\ UNCHANGED <<evalVars, absent, mapping, tstg, runs, audit, variant, stg, lk,
                 src, txn, ctrl, uuidNext, run, hist, issued, firstId>>

InitGen ==
  /\ variant = "Item_ID_H"
  /\ lk \in TablesUpTo([i \in 1..MaxLk |-> HumanInitRows(i)])
  /\ ctrl \in {EMPTY, Num(0), Num(9), Num(41)}
  /\ stg = <<>> /\ src = <<>> /\ txn = <<>>
  /\ uuidNext = 1
  /\ run = RunIdle
  /\ hist = <<>> /\ issued = {} /\ firstId = <<>>
  /\ EvalUnused /\ AuxUnused

NextGen ==
  \/ GenStart
  \/ GenRow
  \/ GenCounter
  \/ GenAbandon
  \/ ExtAddRow

SpecGen == InitGen /\ [][NextGen]_vars

(* ---------------- human ids after an abandoned run (C26) --------------- *)
\* C26: no two rows of Lookup_Items hold the same human id, in any state that
\* runs of generateItemID_H, runs abandoned between the writes of the id
\* cells and the write of the counter, and new rows can lead to
C26_HumanIdsDistinct ==
  \A i, j \in 1..Len(lk) :
    (i # j /\ lk[i].Item_ID_H # EMPTY) => lk[i].Item_ID_H # lk[j].Item_ID_H

(* ------------ backfill and orphan cleanup, read and write -------------- *)
\* a machine-id backfill or an orphan cleanup up to range.getValues(): the
\* data range is read; a sheet without data rows ends the run
SnapshotRead ==
  /\ job.pc = "idle"
  /\ \E script \in {"backfillMachine", "cleanupOrphan"} :
       /\ script = "backfillMachine" => variant \in {"items", "products"}
       /\ script = "cleanupOrphan" => variant \in {"items", "brands"}
       /\ IF Len(lk) < 1
          THEN /\ hist' = Push(hist, [op |-> script, writes |-> 0])
               /\ UNCHANGED job
          ELSE /\ job' = [pc |-> "read", script |-> script, data |-> lk]
               /\ UNCHANGED hist
  /\ UNCHANGED <<evalVars, absent, mapping, tstg, runs, audit, variant, stg, lk,
                 src, txn, ctrl, uuidNext, run, issued, firstId>>

\* the loop over output (a copy of the rows that were read) and
\* range.setValues(output)
SnapshotWrite ==
  /\ job.pc = "read"
  /\ LET res == IF job.script = "backfillMachine"
                THEN BackfillLoop(job.data, 1, uuidNext)
                ELSE [output |-> OrphanOutput(job.data), next |-> uuidNext]
     IN  /\ WithinCap(res.next)
         /\ lk' = SetRange(lk, res.output)
         /\ uuidNext' = res.next
         /\ hist' = Push(hist, [op |-> job.script, writes |-> 1])
         /\ issued' = issued \cup IdsIn(res.output)
         /\ firstId' = FirstIds(firstId, res.output)
  /\ job' = JobIdle
  /\ UNCHANGED <<evalVars, absent, mapping, tstg, runs, audit, variant, stg, src,
                 txn, ctrl, run>>

\* a user writes a note into a master row (outside the scripts)
ExtEditNote ==
  /\ \E i \in 1..Len(lk) :
       /\ lk[i].notes = EMPTY
       /\ lk' = [lk EXCEPT ![i].notes = Str(<<"checked">>)]
  /\ hist' = Push(hist, [op |-> "edit", writes |-> 1])
  /\ UNCHANGED <<auxVars, evalVars, variant, stg, src, txn, ctrl, uuidNext, run,
                 issued, firstId>>

\* master rows with a name, with or without an identifier
StaleInitRows(i) == { ManualLkRow(Str(<<"Tea">>), id) : id \in {EMPTY, OldId(i)} }

InitStale ==
  /\ variant \in Variants
  /\ lk \in TablesUpTo([i \in 1..MaxLk |-> StaleInitRows(i)]) \ {<<>>}
  /\ stg = <<>> /\ src = <<>> /\ txn = <<>> /\ ctrl = EMPTY
  /\ uuidNext = 1
  /\ run = RunIdle
  /\ hist = <<>>
  /\ issued = IdsIn(lk)
  /\ firstId = FirstIds(<<>>, lk)
  /\ EvalUnused /\ AuxUnused

NextStale ==
  \/ SnapshotRead
  \/ SnapshotWrite
  \/ ExtEditNote
  \/ ExtClearName

SpecStale == InitStale /\ [][NextStale]_vars

(* ------------- what the bulk write-back leaves alone (C30) ------------- *)
\* row i of a master sheet, below the last row with content an empty row
LkRowAt(sheet, i) == IF i <= Len(sheet) THEN sheet[i] ELSE BlankRow(LkFields)

\* C30: the bulk write-back of a machine-id backfill or an orphan cleanup
\* changes nothing but the identifier cell of the rows that qualify: every
\* other cell holds after the write what it held immediately before it, the
\* cells included that were edited between the run's read and its write
C30_WriteBackTouchesOnlyIds ==
  [][(job.pc = "read" /\ job'.pc = "idle") =>
       \A i \in 1..Len(lk) :
         /\ \A f \in LkFields \ {"idM"} : LkRowAt(lk', i)[f] = lk[i][f]
         /\ LkRowAt(lk', i).idM # lk[i].idM =>
              IF job.script = "backfillMachine"
              THEN lk[i].name # EMPTY /\ lk[i].idM = EMPTY
              ELSE lk[i].name = EMPTY /\ lk[i].idM # EMPTY]_vars

====
